---- MODULE Spec2Model ----
(***************************************************************************)
(* Recording session pipeline of the Advanced Audio Recorder plugin:       *)
(* RecordingManager (start / chunk handling / pause / stop / finalize /    *)
(* cleanup), the per-track write queue, the storage adapter it drives, and *)
(* the retry loop of getAudioStream.                                       *)
(*                                                                         *)
(* Every await of the source is one step of the model: the awaited         *)
(* operation takes effect and the synchronous code after it runs up to the *)
(* next await.                                                             *)
(***************************************************************************)
EXTENDS Integers, Sequences, FiniteSets, TLC

(***************************************************************************)
(* Bounds of the model.                                                    *)
(***************************************************************************)
MaxTracks == 2
MaxChannels == 2
MaxLength == 2
SampleSteps == 2
MaxAmplitude == 2
MaxResolves == 3
MaxSessions == 1
MaxChunks == 3
OverlapChunks == 1
FairChunks == 2
MaxSlots == 3
ToggleSessions == 2

(***************************************************************************)
(* Program constants.                                                      *)
(***************************************************************************)
MAX_RETRIES == 2
MOBILE_BUFFER_LIMIT_BYTES == 52428800

FORMAT_WEBM == "webm"
FORMAT_OGG == "ogg"
FORMAT_MP3 == "mp3"
FORMAT_M4A == "m4a"
FORMAT_MP4 == "mp4"
FORMAT_WAV == "wav"

Idle == "idle"
Recording == "recording"
Paused == "paused"

VARIABLES
    settings,             \* AudioRecorderSettings read by the manager
    platform,             \* host: supported MIME formats, Platform.isMobile
    awaitCalls,           \* TRUE: callers await every async call before the next
    orderly,              \* TRUE: callers start a session only while Idle
                          \* and make no call after cleanup()
    storageFails,         \* TRUE: calls of the vault adapter may reject
    limits,               \* what the host delivers: sessions, timeslices
    status,
    streams,
    recorders,
    chunkTargets,
    trackOrder,
    recordingTimestamp,
    totalChunks,
    isMobileRecording,
    activeRecorderFormat,
    nextSession,          \* number of the next getAudioStreams() that opens streams
    opened,               \* streams opened by getUserMedia so far
    released,             \* per stream: how often its tracks were stopped
    recState,             \* MediaRecorder.state per recorder
    stopQueued,           \* recorders whose 'stop' event is queued, not yet fired
    emitted,              \* per recorder: dataavailable events fired
    delivered,            \* per target: chunks handleChunk queued, in arrival order
    targets,              \* RecordingTarget objects (heap), per session and index
    files,                \* storage: path -> content
    calls,                \* in-flight startRecording / stopRecording invocations
    cb,                   \* argument of onStatusChange if the last step invoked it
    notice,               \* text of the Notice the last step showed, if any
    ret,                  \* the call that returned in the last step, if any
    acq,                  \* getAudioStream: one acquisition with its retry loop
    tornDown,             \* cleanup() has run (the plugin was unloaded)
    probe                 \* a call of a pure function: its argument, its result

mgrVars == <<status, streams, recorders, chunkTargets, trackOrder,
             recordingTimestamp, totalChunks, isMobileRecording,
             activeRecorderFormat>>
cfgVars == <<settings, platform, awaitCalls, orderly, storageFails,
             limits>>
mediaVars == <<nextSession, opened, released, recState, stopQueued, emitted,
               delivered>>
vars == <<settings, platform, awaitCalls, orderly, storageFails,
          limits, status,
          streams, recorders,
          chunkTargets, trackOrder, recordingTimestamp, totalChunks,
          isMobileRecording, activeRecorderFormat, nextSession, opened,
          released, recState, stopQueued, emitted, delivered, targets, files,
          calls, cb, notice, ret, acq, tornDown, probe>>

(***************************************************************************)
(* Objects.  A stream, its MediaRecorder and its RecordingTarget are       *)
(* created together by one startRecording(); object <<s, i>> is the one of *)
(* session s at index i - 1 of the arrays.                                 *)
(***************************************************************************)
\* sessions of awaited callers are bounded by MaxSessions, those of callers
\* that do not await by ToggleSessions (MaxSessions <= ToggleSessions)
Sessions == 1..ToggleSessions
Obj == Sessions \X (1..MaxTracks)
CallIds == {"a", "b"}

Range(s) == {s[i] : i \in 1..Len(s)}

RECURSIVE Flatten(_)
Flatten(ss) == IF ss = <<>> THEN <<>> ELSE Head(ss) \o Flatten(Tail(ss))

(***************************************************************************)
(* Storage paths.  A file name is kept as its parts: the kind of artifact, *)
(* the source name of the track, the session timestamp, the segment        *)
(* number, the extension, and the numeric suffixes resolveUniquePath put   *)
(* before the extension.                                                   *)
(***************************************************************************)
NoPath == [kind |-> "none", src |-> 0, ts |-> 0, part |-> 0, ext |-> "",
           sfx |-> <<>>]
PathOf(kind, src, ts, part, ext) ==
    [kind |-> kind, src |-> src, ts |-> ts, part |-> part, ext |-> ext,
     sfx |-> <<>>]

\* a storage that reports every path as free
existsNowhere(fs, p) == FALSE

exists(fs, p) == p \in DOMAIN fs

\* while (await exists(filePath)) { name = `${name}_${counter}`; counter++ }
RECURSIVE UniqueFrom(_, _, _)
UniqueFrom(fs, p, counter) ==
    IF exists(fs, p)
    THEN UniqueFrom(fs, [p EXCEPT !.sfx = Append(@, counter)], counter + 1)
    ELSE p
resolveUniquePath(fs, p) == UniqueFrom(fs, p, 1)

FilePut(fs, p, c) == [q \in DOMAIN fs \cup {p} |-> IF q = p THEN c ELSE fs[q]]
FileDel(fs, p) == [q \in DOMAIN fs \ {p} |-> fs[q]]
Content(fmt, data) == [fmt |-> fmt, data |-> data]

(***************************************************************************)
(* AudioCapabilityDetector and RecordingManager.resolveRecorderFormat.     *)
(***************************************************************************)
buildMimeType(format) == <<"audio", format>>
isTypeSupported(mimeType) == mimeType[2] \in platform.supported
COMPRESSED_INTERMEDIATES == <<FORMAT_WEBM, FORMAT_OGG>>

CANDIDATE_FORMATS ==
    <<FORMAT_WEBM, FORMAT_OGG, FORMAT_MP3, FORMAT_M4A, FORMAT_MP4>>

\* COMPRESSED_INTERMEDIATES.some(f => isTypeSupported(buildMimeType(f)))
hasCompressedIntermediate ==
    \E i \in 1..Len(COMPRESSED_INTERMEDIATES) :
        isTypeSupported(buildMimeType(COMPRESSED_INTERMEDIATES[i]))

\* the candidates the host supports, in order, then wav if it is available
detectSupportedFormats ==
    SelectSeq(CANDIDATE_FORMATS,
              LAMBDA f : isTypeSupported(buildMimeType(f)))
    \o (IF hasCompressedIntermediate THEN <<FORMAT_WAV>> ELSE <<>>)

\* a validation that probes the MIME type of every format, wav included
validateByMimeType(format) ==
    IF isTypeSupported(buildMimeType(format))
    THEN [valid |-> TRUE, reason |-> ""]
    ELSE [valid |-> FALSE, reason |-> "not supported"]

\* the reasons are the two messages of the source, by their first words
validateRecordingCapability(format) ==
    IF format = FORMAT_WAV
    THEN IF ~hasCompressedIntermediate
         THEN [valid |-> FALSE,
               reason |-> "WAV output requires an intermediate"]
         ELSE [valid |-> TRUE, reason |-> ""]
    ELSE IF ~isTypeSupported(buildMimeType(format))
         THEN [valid |-> FALSE, reason |-> "The format is not supported"]
         ELSE [valid |-> TRUE, reason |-> ""]

\* the first format of the list, whatever the host supports
FirstListed(fmts) ==
    IF fmts = <<>> THEN [ok |-> FALSE, recorderFormat |-> ""]
    ELSE [ok |-> TRUE, recorderFormat |-> Head(fmts)]

RECURSIVE FirstSupported(_)
FirstSupported(fmts) ==
    IF fmts = <<>> THEN [ok |-> FALSE, recorderFormat |-> ""]
    ELSE IF isTypeSupported(buildMimeType(Head(fmts)))
         THEN [ok |-> TRUE, recorderFormat |-> Head(fmts)]
         ELSE FirstSupported(Tail(fmts))

resolveRecorderFormat ==
    IF settings.recordingFormat = FORMAT_WAV
    THEN FirstSupported(<<FORMAT_WEBM, FORMAT_OGG>>)
    ELSE [ok |-> TRUE, recorderFormat |-> settings.recordingFormat]

(***************************************************************************)
(* Records of the heap and of the calls in flight.                         *)
(***************************************************************************)
NoTarget == [made |-> FALSE, sourceName |-> 0, ts |-> 0,
             tempFilePath |-> NoPath, bufferedChunks |-> <<>>,
             bufferedBytes |-> 0, segmentIndex |-> 0, segmentPaths |-> <<>>,
             queue |-> <<>>, jpc |-> "new", existing |-> <<>>,
             rejected |-> FALSE]

NoCall == [op |-> "none", pc |-> "none", from |-> Idle, cbSeen |-> FALSE,
           sess |-> 0, prep |-> <<>>, names |-> <<>>, tpaths |-> <<>>,
           recs |-> <<>>, strs |-> <<>>, waiting |-> {}, drain |-> {},
           dts |-> {}, ts |-> 0, links |-> <<>>, idx |-> 0,
           tgt |-> <<0, 0>>, fpath |-> NoPath, blob |-> <<>>,
           blobs |-> <<>>, failed |-> <<>>, rolled |-> FALSE]

\* what the last returned call did; of a stopRecording also where
\* saveRecording stood (stage, idx, fpath), the paths its error names
\* (kept) and whether the rollback removed the final file (rolled)
NoRet == [op |-> "none", ok |-> FALSE, why |-> "", from |-> Idle,
          was |-> Idle, cbs |-> FALSE, links |-> <<>>, strs |-> <<>>,
          stage |-> "none", idx |-> 0, fpath |-> NoPath, kept |-> <<>>,
          rolled |-> FALSE]
NoCb == "none"

NoAcq == [pc |-> "idle", deviceId |-> "", attempt |-> 0, attempts |-> 0,
          outcomes |-> <<>>, result |-> "none", lastError |-> "",
          errDevice |-> "", delays |-> 0, asked |-> <<>>,
          caught |-> FALSE, shown |-> <<>>, logged |-> <<>>]

NoProbe == [fn |-> "none"]

InFlight == {c \in CallIds : calls[c].op # "none"}
\* a caller that awaits its calls issues nothing while a call is in flight;
\* cleanup() is the teardown of onunload, the last call of an orderly caller
NotTornDown == orderly => ~tornDown
CanCall == (~awaitCalls \/ InFlight = {}) /\ NotTornDown
\* the state machine of the session has start() in Idle alone; a caller
\* that keeps to it does not call startRecording() in another status
CanStart == orderly => status = Idle
CanBegin(c) == calls[c].op = "none" /\ CanCall
               /\ \A d \in CallIds : (d # c /\ calls[d].op = "none") => c = "a"

\* outcomes of a call of the vault adapter: resolved (TRUE) or rejected
Outcomes == IF storageFails THEN BOOLEAN ELSE {TRUE}
Rejections(S) == IF storageFails THEN SUBSET S ELSE {{}}

\* onStatusChange ran while these calls were in flight
MarkCb(cs) ==
    [c \in CallIds |-> IF cs[c].op = "none" THEN cs[c]
                       ELSE [cs[c] EXCEPT !.cbSeen = TRUE]]

(***************************************************************************)
(* Initial states: the manager right after construction, the storage       *)
(* empty, for every configuration of settings and host.                    *)
(***************************************************************************)
SettingsSet ==
    [recordingFormat : {FORMAT_WEBM, FORMAT_WAV, FORMAT_MP3},
     outputMode : {"single", "multiple"},
     tracks : 1..MaxTracks,
     useSourceNamesForTracks : {FALSE}]
PlatformSet ==
    [supported : {{FORMAT_WEBM, FORMAT_OGG}, {FORMAT_OGG}, {}},
     mobile : BOOLEAN]

InitManager ==
    /\ status = Idle
    /\ streams = <<>>
    /\ recorders = <<>>
    /\ chunkTargets = <<>>
    /\ trackOrder = <<>>
    /\ recordingTimestamp = 0
    /\ totalChunks = 0
    /\ isMobileRecording = FALSE
    /\ activeRecorderFormat = FORMAT_WEBM

InitHost ==
    /\ nextSession = 1
    /\ opened = {}
    /\ released = [o \in Obj |-> 0]
    /\ recState = [o \in Obj |-> "none"]
    /\ stopQueued = {}
    /\ emitted = [o \in Obj |-> 0]
    /\ delivered = [o \in Obj |-> <<>>]
    /\ targets = [o \in Obj |-> NoTarget]
    /\ files = <<>>
    /\ calls = [c \in CallIds |-> NoCall]
    /\ cb = NoCb
    /\ notice = ""
    /\ ret = NoRet
    /\ acq = NoAcq
    /\ tornDown = FALSE
InitWorld == InitHost /\ probe = NoProbe

(***************************************************************************)
(* setStatus and the start of a session.                                   *)
(***************************************************************************)
setStatus(s) ==
    /\ status' = s
    /\ cb' = s

NoStatusChange == status' = status /\ cb' = NoCb

\* handleStartRecordingError: a Notice and a log entry, nothing else
StartFail(c, why, from, cbs) ==
    /\ notice' = "Error starting recording"
    /\ ret' = [NoRet EXCEPT !.op = "start", !.ok = FALSE, !.why = why,
                            !.from = from, !.cbs = cbs]

\* startRecording announcing Recording before the streams are acquired
StartBeginEager(c) ==
    LET r == resolveRecorderFormat IN
    /\ IF ~r.ok
       THEN /\ StartFail(c, "format", status, FALSE)
            /\ NoStatusChange
            /\ UNCHANGED <<activeRecorderFormat, calls>>
       ELSE IF ~validateRecordingCapability(settings.recordingFormat).valid
       THEN /\ activeRecorderFormat' = r.recorderFormat
            /\ StartFail(c, "format", status, FALSE)
            /\ NoStatusChange
            /\ UNCHANGED calls
       ELSE /\ activeRecorderFormat' = r.recorderFormat
            /\ calls' = [calls EXCEPT ![c] =
                   [NoCall EXCEPT !.op = "start", !.pc = "devices",
                                  !.from = status, !.cbSeen = TRUE]]
            /\ setStatus(Recording)
            /\ ret' = NoRet
            /\ notice' = ""
    /\ UNCHANGED <<streams, recorders, chunkTargets, trackOrder,
                   recordingTimestamp, totalChunks,
                   isMobileRecording>>
    /\ UNCHANGED <<cfgVars, mediaVars, targets, files, acq, tornDown, probe>>

\* startRecording opening a stream before it validates the format
StartBeginProbing(c) ==
    LET r == resolveRecorderFormat
        valid == r.ok /\ validateRecordingCapability(
                             settings.recordingFormat).valid
    IN
    /\ activeRecorderFormat' =
          IF r.ok THEN r.recorderFormat ELSE activeRecorderFormat
    /\ IF ~valid
       THEN /\ StartFail(c, "format", status, FALSE)
            /\ opened' = opened \cup {<<nextSession, 1>>}
            /\ UNCHANGED calls
       ELSE /\ calls' = [calls EXCEPT ![c] =
                   [NoCall EXCEPT !.op = "start", !.pc = "devices",
                                  !.from = status, !.cbSeen = FALSE]]
            /\ ret' = NoRet
            /\ notice' = ""
            /\ UNCHANGED opened
    /\ UNCHANGED <<status, streams, recorders, chunkTargets, trackOrder,
                   recordingTimestamp, totalChunks,
                   isMobileRecording>>
    /\ UNCHANGED <<cfgVars, nextSession, released, recState, stopQueued,
                   emitted, delivered, targets, files, acq, tornDown, probe>>
    /\ cb' = NoCb

\* startRecording up to its first await (validateSelectedDevices)
StartBegin(c) ==
    LET r == resolveRecorderFormat IN
    /\ IF ~r.ok
       THEN /\ StartFail(c, "format", status, FALSE)
            /\ UNCHANGED <<activeRecorderFormat, calls>>
       ELSE IF ~validateRecordingCapability(settings.recordingFormat).valid
       THEN /\ activeRecorderFormat' = r.recorderFormat
            /\ StartFail(c, "format", status, FALSE)
            /\ UNCHANGED calls
       ELSE /\ activeRecorderFormat' = r.recorderFormat
            /\ calls' = [calls EXCEPT ![c] =
                   [NoCall EXCEPT !.op = "start", !.pc = "devices",
                                  !.from = status, !.cbSeen = FALSE]]
            /\ ret' = NoRet
            /\ notice' = ""
    /\ UNCHANGED <<status, streams, recorders, chunkTargets, trackOrder,
                   recordingTimestamp, totalChunks,
                   isMobileRecording>>
    /\ UNCHANGED <<cfgVars, mediaVars, targets, files, acq, tornDown, probe>>
    /\ cb' = NoCb

\* await validateSelectedDevices(settings)
StartDevicesValidated(c) ==
    /\ calls[c].op = "start" /\ calls[c].pc = "devices"
    /\ \E ok \in BOOLEAN :
          IF ok
          THEN /\ calls' = [calls EXCEPT ![c].pc = "acquire"]
               /\ ret' = NoRet
               /\ notice' = ""
          ELSE /\ calls' = [calls EXCEPT ![c] = NoCall]
               /\ StartFail(c, "devices", calls[c].from, calls[c].cbSeen)
    /\ UNCHANGED <<mgrVars, cfgVars, mediaVars, targets, files, acq, tornDown, probe>>
    /\ cb' = NoCb

\* settings.trackAudioSources: per track slot 1..maxTracks the device
\* selected for it: no entry, an entry with an empty deviceId, or a device
NoEntry == "no entry"
SlotValues == {NoEntry, "", "mic-1", "mic-2"}
Selected(trackAudioSources) ==
    {k \in DOMAIN trackAudioSources :
        trackAudioSources[k] \notin {NoEntry, ""}}
RECURSIVE Ascending(_)
Ascending(S) ==
    IF S = {} THEN <<>>
    ELSE LET m == CHOOSE x \in S : \A y \in S : x <= y
         IN <<m>> \o Ascending(S \ {m})

\* a track order that numbers each track by the slot it was configured in
getOrderedTrackSourcesBySlot(trackAudioSources) ==
    LET slots == Ascending(Selected(trackAudioSources))
    IN [i \in 1..Len(slots) |->
           [trackNumber |-> slots[i], deviceId |-> trackAudioSources[slots[i]]]]

\* getAudioStreams: the track order handed back with the streams: the
\* slots with a device selected, in ascending order of the slots, numbered
\* 1..N
getOrderedTrackSources(trackAudioSources) ==
    LET slots == Ascending(Selected(trackAudioSources))
    IN [i \in 1..Len(slots) |->
           [trackNumber |-> i, deviceId |-> trackAudioSources[slots[i]]]]

\* const trackNumber = trackInfo?.trackNumber ?? index + 1, for the
\* recorder at position i of the array (index = i - 1)
trackNumberAt(order, i) ==
    IF i \in DOMAIN order THEN order[i].trackNumber ELSE i

\* the sources of a configuration with a device in each of its n tracks
ConfiguredSources(n) ==
    [k \in 1..MaxSlots |-> IF k <= n THEN "mic-1" ELSE NoEntry]

\* the temp file name of track i, built when the streams arrive
TempName(s, i, fmt) == PathOf("partial", i, s, 0, fmt)

\* a getAudioStreams that resolves when at least one device was acquired
AnyAcquired(okset, n) == okset # {}

\* Promise.all(streamPromises) resolves when every getAudioStream resolved
\* and rejects with the first rejection otherwise
AllAcquired(okset, n) == okset = 1..n

\* await getAudioStreams(settings) and the synchronous code up to the
\* per-track Promise.all
StartStreamsAcquired(c) ==
    /\ calls[c].op = "start" /\ calls[c].pc = "acquire"
    /\ LET n == settings.tracks
           s == nextSession
       IN \E okset \in SUBSET (1..n) :
          /\ okset # {} => s <= limits.sessions
          /\ opened' = opened \cup {<<s, i>> : i \in okset}
          /\ nextSession' = IF okset = {} THEN s ELSE s + 1
          /\ IF AllAcquired(okset, n)
             THEN /\ streams' = [i \in 1..n |-> <<s, i>>]
                  /\ trackOrder' = getOrderedTrackSources(ConfiguredSources(n))
                  /\ recorders' = [i \in 1..n |-> <<s, i>>]
                  /\ recState' = [o \in Obj |->
                        IF o[1] = s /\ o[2] <= n THEN "inactive"
                        ELSE recState[o]]
                  /\ recordingTimestamp' = s
                  /\ totalChunks' = 0
                  /\ isMobileRecording' = platform.mobile
                  /\ calls' = [calls EXCEPT ![c].pc = "prepare",
                        ![c].sess = s,
                        ![c].prep = [i \in 1..n |->
                            IF settings.useSourceNamesForTracks THEN "name"
                            ELSE IF platform.mobile THEN "done"
                            ELSE "resolve"],
                        ![c].names = [i \in 1..n |->
                            trackNumberAt(
                                getOrderedTrackSources(ConfiguredSources(n)),
                                i)],
                        ![c].tpaths = [i \in 1..n |->
                            IF platform.mobile THEN NoPath
                            ELSE TempName(s, i, activeRecorderFormat)]]
                  /\ ret' = NoRet
                  /\ notice' = ""
             ELSE /\ calls' = [calls EXCEPT ![c] = NoCall]
                  /\ StartFail(c, "acquire", calls[c].from, calls[c].cbSeen)
                  /\ UNCHANGED <<streams, trackOrder, recorders, recState,
                   recordingTimestamp, totalChunks,
                   isMobileRecording>>
    /\ UNCHANGED <<status, chunkTargets, activeRecorderFormat, cfgVars,
                   released, stopQueued, emitted, delivered,
                   targets, files, acq, tornDown, probe>>
    /\ cb' = NoCb

\* the names getAudioSourceName can hand back for the devices of a session:
\* the sanitized label of the device, or 'UnknownDevice'.  A name is
\* identified by a number; two tracks with the same device, or two devices
\* that are both unknown, get the same one
SourceNames == 1..MaxTracks

\* sourceName = await getAudioSourceName(deviceId), when
\* useSourceNamesForTracks is set: enumerateDevices may reject
StartTrackName(c, i) ==
    /\ calls[c].op = "start" /\ calls[c].pc = "prepare"
    /\ i \in 1..Len(calls[c].prep) /\ calls[c].prep[i] = "name"
    /\ \/ \E name \in SourceNames :
             /\ calls' = [calls EXCEPT
                   ![c].prep[i] = IF platform.mobile THEN "done"
                                  ELSE "resolve",
                   ![c].names[i] = name,
                   ![c].tpaths[i] =
                       IF platform.mobile THEN NoPath
                       ELSE TempName(calls[c].sess, name,
                                     activeRecorderFormat)]
             /\ ret' = NoRet
             /\ notice' = ""
       \/ /\ calls' = [calls EXCEPT ![c] = NoCall]
          /\ StartFail(c, "name", calls[c].from, calls[c].cbSeen)
    /\ UNCHANGED <<mgrVars, cfgVars, mediaVars, targets, files, acq, tornDown, probe>>
    /\ cb' = NoCb

\* tempFilePath = await this.resolveUniquePath(tempName)
StartTrackResolve(c, i) ==
    /\ calls[c].op = "start" /\ calls[c].pc = "prepare"
    /\ i \in 1..Len(calls[c].prep) /\ calls[c].prep[i] = "resolve"
    /\ calls' = [calls EXCEPT
          ![c].prep[i] = "create",
          ![c].tpaths[i] = resolveUniquePath(files, calls[c].tpaths[i])]
    /\ ret' = NoRet
    /\ UNCHANGED <<mgrVars, cfgVars, mediaVars, targets, files, acq, tornDown, probe>>
    /\ cb' = NoCb /\ notice' = ""

\* a start that goes on to the next track when createBinary rejects
StartTrackCreateLenient(c, i) ==
    /\ calls[c].op = "start" /\ calls[c].pc = "prepare"
    /\ i \in 1..Len(calls[c].prep) /\ calls[c].prep[i] = "create"
    /\ LET p == calls[c].tpaths[i] IN
       \E ok \in Outcomes :
          /\ files' = IF ok /\ ~exists(files, p)
                      THEN FilePut(files, p, Content(p.ext, <<>>))
                      ELSE files
          /\ calls' = [calls EXCEPT ![c].prep[i] = "done"]
          /\ ret' = NoRet
          /\ notice' = ""
    /\ UNCHANGED <<mgrVars, cfgVars, mediaVars, targets, acq, tornDown, probe>>
    /\ cb' = NoCb

\* await this.app.vault.createBinary(tempFilePath, new ArrayBuffer(0))
StartTrackCreate(c, i) ==
    /\ calls[c].op = "start" /\ calls[c].pc = "prepare"
    /\ i \in 1..Len(calls[c].prep) /\ calls[c].prep[i] = "create"
    /\ LET p == calls[c].tpaths[i] IN
       \E ok \in Outcomes :
          IF ok /\ ~exists(files, p)
          THEN /\ files' = FilePut(files, p, Content(p.ext, <<>>))
               /\ calls' = [calls EXCEPT ![c].prep[i] = "done"]
               /\ ret' = NoRet
               /\ notice' = ""
          ELSE /\ calls' = [calls EXCEPT ![c] = NoCall]
               /\ StartFail(c, "prepare", calls[c].from, calls[c].cbSeen)
               /\ UNCHANGED files
    /\ UNCHANGED <<mgrVars, cfgVars, mediaVars, targets, acq, tornDown, probe>>
    /\ cb' = NoCb

\* recorders.forEach(recorder => recorder.start(...)): start() throws on a
\* recorder that is not inactive, and the loop stops there
FirstBusy(recs) ==
    LET busy == {k \in 1..Len(recs) : recState[recs[k]] # "inactive"}
    IN IF busy = {} THEN Len(recs) + 1
       ELSE CHOOSE k \in busy : \A j \in busy : k <= j

NewTarget(s, i, path) ==
    [NoTarget EXCEPT !.made = TRUE, !.sourceName = i, !.ts = s,
                     !.tempFilePath = path]

\* the per-track Promise.all has resolved: targets are stored, recorders
\* are wired and started, the status becomes Recording
StartTargetsReady(c) ==
    /\ calls[c].op = "start" /\ calls[c].pc = "prepare"
    /\ \A i \in 1..Len(calls[c].prep) : calls[c].prep[i] = "done"
    /\ LET s == calls[c].sess
           n == Len(calls[c].prep)
           k == FirstBusy(recorders)
       IN /\ chunkTargets' = [i \in 1..n |-> <<s, i>>]
          /\ targets' = [o \in Obj |->
                IF o[1] = s /\ o[2] <= n
                THEN NewTarget(s, calls[c].names[o[2]],
                               calls[c].tpaths[o[2]])
                ELSE targets[o]]
          /\ recState' = [o \in Obj |->
                IF \E j \in 1..(k - 1) : recorders[j] = o
                THEN "recording" ELSE recState[o]]
          /\ IF k > Len(recorders)
             THEN /\ setStatus(Recording)
                  /\ calls' = [MarkCb(calls) EXCEPT ![c] = NoCall]
                  /\ notice' = "Recording started"
                  /\ ret' = [NoRet EXCEPT !.op = "start", !.ok = TRUE,
                                !.from = calls[c].from, !.cbs = TRUE]
             ELSE /\ StartFail(c, "recorder", calls[c].from, calls[c].cbSeen)
                  /\ calls' = [calls EXCEPT ![c] = NoCall]
                  /\ NoStatusChange
    /\ UNCHANGED <<streams, recorders, trackOrder, recordingTimestamp,
                   totalChunks, isMobileRecording,
                   activeRecorderFormat, cfgVars, nextSession,
                   opened, released, stopQueued, emitted,
                   delivered, files, acq, tornDown, probe>>

(***************************************************************************)
(* togglePauseResume and cleanup.                                          *)
(***************************************************************************)
\* pause() and resume() throw InvalidStateError on an inactive recorder
CanPauseAll == \A k \in 1..Len(recorders) : recState[recorders[k]] # "inactive"

\* a togglePauseResume that also starts the pending-write chain of every
\* track afresh, dropping the jobs queued on it
PauseResumeResetting(st) ==
    /\ IF st = Recording
       THEN /\ CanPauseAll
            /\ recState' = [o \in Obj |->
                  IF o \in Range(recorders) /\ recState[o] = "recording"
                  THEN "paused" ELSE recState[o]]
            /\ setStatus(Paused)
            /\ notice' = "Recording paused"
            /\ calls' = MarkCb(calls)
       ELSE IF st = Paused
       THEN /\ CanPauseAll
            /\ recState' = [o \in Obj |->
                  IF o \in Range(recorders) /\ recState[o] = "paused"
                  THEN "recording" ELSE recState[o]]
            /\ setStatus(Recording)
            /\ notice' = "Recording resumed"
            /\ calls' = MarkCb(calls)
       ELSE /\ notice' = "No active recording to pause or resume"
            /\ NoStatusChange
            /\ UNCHANGED <<recState, calls>>
    /\ targets' = [o \in Obj |->
          IF o \in Range(chunkTargets)
          THEN [targets[o] EXCEPT !.queue = <<>>, !.jpc = "new",
                                  !.existing = <<>>]
          ELSE targets[o]]
    /\ ret' = [NoRet EXCEPT !.op = "togglePauseResume", !.ok = TRUE,
                            !.from = status, !.was = status]
    /\ UNCHANGED <<streams, recorders, chunkTargets, trackOrder,
                   recordingTimestamp, totalChunks,
                   isMobileRecording, activeRecorderFormat,
                   cfgVars, nextSession, opened, released,
                   stopQueued, emitted, delivered,
                   files, acq, tornDown, probe>>

\* the body of togglePauseResume, branching on the status st it reads
PauseResumeFrom(st) ==
    /\ IF st = Recording
       THEN /\ CanPauseAll
            /\ recState' = [o \in Obj |->
                  IF o \in Range(recorders) /\ recState[o] = "recording"
                  THEN "paused" ELSE recState[o]]
            /\ setStatus(Paused)
            /\ notice' = "Recording paused"
            /\ calls' = MarkCb(calls)
       ELSE IF st = Paused
       THEN /\ CanPauseAll
            /\ recState' = [o \in Obj |->
                  IF o \in Range(recorders) /\ recState[o] = "paused"
                  THEN "recording" ELSE recState[o]]
            /\ setStatus(Recording)
            /\ notice' = "Recording resumed"
            /\ calls' = MarkCb(calls)
       ELSE /\ notice' = "No active recording to pause or resume"
            /\ NoStatusChange
            /\ UNCHANGED <<recState, calls>>
    /\ ret' = [NoRet EXCEPT !.op = "togglePauseResume", !.ok = TRUE,
                            !.from = status, !.was = status]
    /\ UNCHANGED <<streams, recorders, chunkTargets, trackOrder,
                   recordingTimestamp, totalChunks,
                   isMobileRecording, activeRecorderFormat,
                   cfgVars, nextSession, opened, released,
                   stopQueued, emitted, delivered, targets,
                   files, acq, tornDown, probe>>

\* togglePauseResume without its last branch: whatever is not Recording
\* is resumed
togglePauseResumeResuming ==
    CanCall /\ PauseResumeFrom(IF status = Idle THEN Paused ELSE status)

\* togglePauseResume testing Paused alone: whatever is not Paused is paused
togglePauseResumePausing ==
    CanCall /\ PauseResumeFrom(IF status = Idle THEN Recording ELSE status)

togglePauseResume == CanCall /\ PauseResumeFrom(status)

\* a release that stops no track
stopNoStreams(strs) == released

stopAllStreams(strs) ==
    [o \in Obj |-> IF o \in Range(strs) THEN released[o] + 1 ELSE released[o]]

\* a teardown that also deletes the temp file of every track of the session
cleanupRemovingTemps ==
    /\ CanCall
    /\ released' = stopAllStreams(streams)
    /\ files' = [p \in DOMAIN files \
                    {targets[t].tempFilePath : t \in Range(chunkTargets)}
                 |-> files[p]]
    /\ recorders' = <<>>
    /\ chunkTargets' = <<>>
    /\ streams' = <<>>
    /\ recordingTimestamp' = 0
    /\ totalChunks' = 0
    /\ ret' = [NoRet EXCEPT !.op = "cleanup", !.ok = TRUE, !.from = status]
    /\ UNCHANGED <<status, trackOrder, isMobileRecording,
                   activeRecorderFormat, cfgVars, nextSession,
                   opened, recState, stopQueued, emitted,
                   delivered, targets, calls, acq, probe>>
    /\ tornDown' = TRUE
    /\ cb' = NoCb /\ notice' = ""

cleanup ==
    /\ CanCall
    /\ released' = stopAllStreams(streams)
    /\ recorders' = <<>>
    /\ chunkTargets' = <<>>
    /\ streams' = <<>>
    /\ recordingTimestamp' = 0
    /\ totalChunks' = 0
    /\ ret' = [NoRet EXCEPT !.op = "cleanup", !.ok = TRUE, !.from = status]
    /\ UNCHANGED <<status, trackOrder, isMobileRecording,
                   activeRecorderFormat, cfgVars, nextSession,
                   opened, recState, stopQueued, emitted,
                   delivered, targets, files, calls, acq, probe>>
    /\ tornDown' = TRUE
    /\ cb' = NoCb /\ notice' = ""

(***************************************************************************)
(* Chunk handling.  A chunk is its identity (recorder and number) and its  *)
(* size in bytes; the content of a file is the sequence of the chunk       *)
(* identities written to it.                                               *)
(***************************************************************************)
\* sizes of the chunks a recorder emits: empty, small, and just below the
\* mobile buffer limit (sizes only matter to the mobile buffer)
ChunkSizes ==
    IF platform.mobile THEN {0, 3, MOBILE_BUFFER_LIMIT_BYTES - 3} ELSE {0, 3}

\* dataavailable events fired so far, over all recorders
RECURSIVE SumOver(_, _)
SumOver(f, S) ==
    IF S = {} THEN 0
    ELSE LET x == CHOOSE y \in S : TRUE IN f[x] + SumOver(f, S \ {x})
Emitted == SumOver(emitted, Obj)

ChunkOf(r, size) == [id |-> <<r[1], r[2], emitted[r] + 1>>, size |-> size]
Ids(chunks) == [k \in 1..Len(chunks) |-> chunks[k].id]

\* ondataavailable of the recorder at index r[2]: empty chunks are dropped;
\* handleChunk looks the target up in the current chunkTargets
Routed(r, ch) == ch.size > 0 /\ r[2] <= Len(chunkTargets)

\* target.pendingWrite = target.pendingWrite.then(enqueue): a rejected
\* chain never runs the new enqueue
TargetsAfterChunk(r, ch) ==
    IF ~Routed(r, ch) THEN targets
    ELSE LET t == chunkTargets[r[2]] IN
         IF targets[t].rejected THEN targets
         ELSE [targets EXCEPT ![t].queue = Append(@, ch)]

DeliveredAfterChunk(r, ch) ==
    IF ~Routed(r, ch) THEN delivered
    ELSE [delivered EXCEPT ![chunkTargets[r[2]]] = Append(@, ch.id)]

TotalAfterChunk(r, ch) ==
    IF Routed(r, ch) THEN totalChunks + 1 ELSE totalChunks

\* a timeslice elapsed on a recording recorder
DataAvailable(r) ==
    /\ recState[r] = "recording"
    /\ Emitted < limits.chunks
    /\ \E size \in ChunkSizes :
          LET ch == ChunkOf(r, size) IN
          /\ targets' = TargetsAfterChunk(r, ch)
          /\ delivered' = DeliveredAfterChunk(r, ch)
          /\ totalChunks' = TotalAfterChunk(r, ch)
    /\ emitted' = [emitted EXCEPT ![r] = @ + 1]
    /\ ret' = NoRet
    /\ UNCHANGED <<status, streams, recorders, chunkTargets, trackOrder,
                   recordingTimestamp, isMobileRecording,
                   activeRecorderFormat, cfgVars, nextSession,
                   opened, released, recState, stopQueued, files,
                   calls, acq, tornDown, probe>>
    /\ cb' = NoCb /\ notice' = ""

PopJob(t) == [t EXCEPT !.queue = Tail(@), !.jpc = "new", !.existing = <<>>]

\* enqueue, desktop: const existing = await adapter.readBinary(tempFilePath)
ChunkRead(t) ==
    /\ targets[t].queue # <<>> /\ targets[t].jpc = "new"
    /\ ~isMobileRecording
    /\ LET tg == targets[t]
           p == tg.tempFilePath
       IN \E ok \in Outcomes :
          IF p = NoPath
          THEN /\ targets' = [targets EXCEPT ![t] = PopJob(tg)]
               /\ notice' = ""
          ELSE IF ok /\ exists(files, p)
          THEN /\ targets' = [targets EXCEPT ![t].jpc = "read",
                                            ![t].existing = files[p].data]
               /\ notice' = ""
          ELSE /\ targets' = [targets EXCEPT ![t] = PopJob(tg)]
               /\ notice' = "Failed to save recording chunk"
    /\ ret' = NoRet
    /\ UNCHANGED <<mgrVars, cfgVars, mediaVars, files, calls, acq, tornDown, probe>>
    /\ cb' = NoCb

\* the chunk alone is written back
chunkAlone(existing, newData) == <<newData>>

\* merged = existing followed by newData
appendChunk(existing, newData) == Append(existing, newData)

\* enqueue, desktop: await adapter.writeBinary(tempFilePath, merged)
ChunkWrite(t) ==
    /\ targets[t].queue # <<>> /\ targets[t].jpc = "read"
    /\ LET tg == targets[t]
           p == tg.tempFilePath
           merged == appendChunk(tg.existing, Head(tg.queue).id)
       IN \E ok \in Outcomes :
          IF ok
          THEN /\ files' = FilePut(files, p, Content(p.ext, merged))
               /\ notice' = ""
          ELSE /\ notice' = "Failed to save recording chunk"
               /\ UNCHANGED files
    /\ targets' = [targets EXCEPT ![t] = PopJob(targets[t])]
    /\ ret' = NoRet
    /\ UNCHANGED <<mgrVars, cfgVars, mediaVars, calls, acq, tornDown, probe>>
    /\ cb' = NoCb

\* decodeAudioData rejects empty input and may reject any input
CanDecode(data) == data # <<>>

\* a flush that empties bufferedChunks and keeps the byte count
flushMobileBufferKeepingBytes(tg, fs, ok) ==
    IF tg.bufferedChunks = <<>>
    THEN [target |-> tg, files |-> fs, ok |-> TRUE]
    ELSE LET idx == tg.segmentIndex + 1
             fmt == settings.recordingFormat
             segmentPath == resolveUniquePath(fs,
                 PathOf("segment", tg.sourceName, tg.ts, idx, fmt))
             data == Ids(tg.bufferedChunks)
         IN IF ok /\ (fmt = FORMAT_WAV => CanDecode(data))
            THEN [target |-> [tg EXCEPT !.segmentIndex = idx,
                                 !.segmentPaths = Append(@, segmentPath),
                                 !.bufferedChunks = <<>>],
                  files |-> FilePut(fs, segmentPath, Content(fmt, data)),
                  ok |-> TRUE]
            ELSE [target |-> [tg EXCEPT !.segmentIndex = idx],
                  files |-> fs, ok |-> FALSE]

\* flushMobileBuffer(target): the new target, the new storage, and whether
\* it returned (ok) or threw
flushMobileBuffer(tg, fs, ok) ==
    IF tg.bufferedChunks = <<>>
    THEN [target |-> tg, files |-> fs, ok |-> TRUE]
    ELSE LET idx == tg.segmentIndex + 1
             fmt == settings.recordingFormat
             segmentPath == resolveUniquePath(fs,
                 PathOf("segment", tg.sourceName, tg.ts, idx, fmt))
             data == Ids(tg.bufferedChunks)
         IN IF ok /\ (fmt = FORMAT_WAV => CanDecode(data))
            THEN [target |-> [tg EXCEPT !.segmentIndex = idx,
                                 !.segmentPaths = Append(@, segmentPath),
                                 !.bufferedChunks = <<>>,
                                 !.bufferedBytes = 0],
                  files |-> FilePut(fs, segmentPath, Content(fmt, data)),
                  ok |-> TRUE]
            ELSE [target |-> [tg EXCEPT !.segmentIndex = idx],
                  files |-> fs, ok |-> FALSE]

\* outcomes of one flushMobileBuffer: its storage calls may reject, and
\* with output format wav the decodeAudioData of buildOutputBlob may
FlushOutcomes ==
    IF storageFails \/ settings.recordingFormat = FORMAT_WAV
    THEN BOOLEAN ELSE {TRUE}
FlushRejections(S) ==
    IF storageFails \/ settings.recordingFormat = FORMAT_WAV
    THEN SUBSET S ELSE {{}}

\* the limit tested with > : a buffer of exactly the limit is not flushed
ChunkBufferAbove(t) ==
    /\ targets[t].queue # <<>> /\ targets[t].jpc = "new"
    /\ isMobileRecording
    /\ LET tg == targets[t]
           ch == Head(tg.queue)
           bytes == tg.bufferedBytes + ch.size
           pushed == [tg EXCEPT !.bufferedChunks = Append(@, ch),
                               !.bufferedBytes = bytes]
       IN targets' = [targets EXCEPT ![t] =
             IF bytes > MOBILE_BUFFER_LIMIT_BYTES
             THEN [pushed EXCEPT !.jpc = "flush"]
             ELSE PopJob(pushed)]
    /\ ret' = NoRet
    /\ UNCHANGED <<mgrVars, cfgVars, mediaVars, files, calls, acq, tornDown, probe>>
    /\ cb' = NoCb /\ notice' = ""

\* enqueue, mobile: push the chunk, count its bytes, test the limit
ChunkBuffer(t) ==
    /\ targets[t].queue # <<>> /\ targets[t].jpc = "new"
    /\ isMobileRecording
    /\ LET tg == targets[t]
           ch == Head(tg.queue)
           bytes == tg.bufferedBytes + ch.size
           pushed == [tg EXCEPT !.bufferedChunks = Append(@, ch),
                               !.bufferedBytes = bytes]
       IN targets' = [targets EXCEPT ![t] =
             IF bytes >= MOBILE_BUFFER_LIMIT_BYTES
             THEN [pushed EXCEPT !.jpc = "flush"]
             ELSE PopJob(pushed)]
    /\ ret' = NoRet
    /\ UNCHANGED <<mgrVars, cfgVars, mediaVars, files, calls, acq, tornDown, probe>>
    /\ cb' = NoCb /\ notice' = ""

\* enqueue, mobile: await this.flushMobileBuffer(target); a throw rejects
\* pendingWrite, and every later .then(enqueue) with it
ChunkFlush(t) ==
    /\ targets[t].queue # <<>> /\ targets[t].jpc = "flush"
    /\ \E ok \in FlushOutcomes :
          LET r == flushMobileBuffer(targets[t], files, ok) IN
          /\ files' = r.files
          /\ targets' = [targets EXCEPT ![t] =
                IF r.ok THEN PopJob(r.target)
                ELSE [r.target EXCEPT !.queue = <<>>, !.jpc = "new",
                                      !.rejected = TRUE]]
    /\ ret' = NoRet
    /\ UNCHANGED <<mgrVars, cfgVars, mediaVars, calls, acq, tornDown, probe>>
    /\ cb' = NoCb /\ notice' = ""

(***************************************************************************)
(* stopRecording.                                                          *)
(***************************************************************************)
Active(o) == recState[o] \in {"recording", "paused"}

\* stopRecording up to its first await: copy the arrays, register a 'stop'
\* listener on every recorder and call recorder.stop().  stop() on an
\* inactive recorder does nothing and queues no event.
StopBegin(c) ==
    /\ recState' = [o \in Obj |->
          IF o \in Range(recorders) /\ Active(o) THEN "inactive"
          ELSE recState[o]]
    /\ stopQueued' = stopQueued \cup {o \in Range(recorders) : Active(o)}
    /\ calls' = [calls EXCEPT ![c] =
          [NoCall EXCEPT !.op = "stop", !.pc = "awaitStop",
                         !.from = status, !.cbSeen = FALSE,
                         !.recs = recorders, !.strs = streams,
                         !.waiting = Range(recorders)]]
    /\ ret' = NoRet
    /\ UNCHANGED <<mgrVars, cfgVars, nextSession, opened, released,
                   emitted, delivered, targets, files, acq, tornDown, probe>>
    /\ cb' = NoCb /\ notice' = ""

\* the recorder fires its last dataavailable and then 'stop': every
\* listener registered on it is resolved
RecorderStopped(r) ==
    /\ r \in stopQueued
    /\ \E size \in ChunkSizes :
          LET ch == ChunkOf(r, size) IN
          /\ size > 0 => Emitted < limits.chunks
          /\ targets' = TargetsAfterChunk(r, ch)
          /\ delivered' = DeliveredAfterChunk(r, ch)
          /\ totalChunks' = TotalAfterChunk(r, ch)
          /\ emitted' = [emitted EXCEPT ![r] = IF size > 0 THEN @ + 1 ELSE @]
    /\ stopQueued' = stopQueued \ {r}
    /\ calls' = [c \in CallIds |->
          IF calls[c].op = "stop"
          THEN [calls[c] EXCEPT !.waiting = @ \ {r}] ELSE calls[c]]
    /\ ret' = NoRet
    /\ UNCHANGED <<status, streams, recorders, chunkTargets, trackOrder,
                   recordingTimestamp, isMobileRecording,
                   activeRecorderFormat, cfgVars, nextSession,
                   opened, released, recState, files, acq, tornDown, probe>>
    /\ cb' = NoCb /\ notice' = ""

QueuedIds(t) == Range(Ids(targets[t].queue))

\* all recorders confirmed, and saveRecording entered without the wait for
\* the pending writes
StopConfirmedNoDrain(c) ==
    /\ calls[c].op = "stop" /\ calls[c].pc = "awaitStop"
    /\ calls[c].waiting = {}
    /\ calls' = [calls EXCEPT
          ![c].pc = "awaitDrain",
          ![c].dts = Range(chunkTargets),
          ![c].drain = {}]
    /\ ret' = NoRet
    /\ UNCHANGED <<mgrVars, cfgVars, mediaVars, targets, files, acq, tornDown, probe>>
    /\ cb' = NoCb /\ notice' = ""

\* all recorders confirmed: await Promise.all(chunkTargets.map(t =>
\* t.pendingWrite)) captures the writes pending now
StopConfirmed(c) ==
    /\ calls[c].op = "stop" /\ calls[c].pc = "awaitStop"
    /\ calls[c].waiting = {}
    /\ calls' = [calls EXCEPT
          ![c].pc = "awaitDrain",
          ![c].dts = Range(chunkTargets),
          ![c].drain = UNION {QueuedIds(t) : t \in Range(chunkTargets)}]
    /\ ret' = NoRet
    /\ UNCHANGED <<mgrVars, cfgVars, mediaVars, targets, files, acq, tornDown, probe>>
    /\ cb' = NoCb /\ notice' = ""

\* the reset of the session written at the end of the try block instead of
\* in a finally block
FinishInTry(c, ok, links) ==
    /\ IF ok
       THEN /\ released' = stopAllStreams(calls[c].strs)
            /\ streams' = <<>>
            /\ recorders' = <<>>
            /\ chunkTargets' = <<>>
            /\ trackOrder' = <<>>
            /\ recordingTimestamp' = 0
            /\ totalChunks' = 0
            /\ setStatus(Idle)
            /\ calls' = [MarkCb(calls) EXCEPT ![c] = NoCall]
       ELSE /\ UNCHANGED <<released, streams, recorders, chunkTargets,
                           trackOrder, recordingTimestamp, totalChunks>>
            /\ NoStatusChange
            /\ calls' = [calls EXCEPT ![c] = NoCall]
    /\ notice' = IF ok THEN "Recording stopped"
                 ELSE "Error stopping recording"
    /\ ret' = [NoRet EXCEPT !.op = "stop", !.ok = ok, !.from = calls[c].from,
                  !.was = status, !.cbs = ok, !.links = links,
                  !.strs = calls[c].strs]

\* the finally block of stopRecording, with the Notice of the path taken
Finish(c, ok, links) ==
    /\ released' = stopAllStreams(calls[c].strs)
    /\ streams' = <<>>
    /\ recorders' = <<>>
    /\ chunkTargets' = <<>>
    /\ trackOrder' = <<>>
    /\ recordingTimestamp' = 0
    /\ totalChunks' = 0
    /\ setStatus(Idle)
    /\ notice' = IF ok THEN "Recording stopped"
                 ELSE "Error stopping recording"
    /\ calls' = [MarkCb(calls) EXCEPT ![c] = NoCall]
    /\ ret' = [NoRet EXCEPT !.op = "stop", !.ok = ok, !.from = calls[c].from,
                  !.was = status, !.cbs = TRUE, !.links = links,
                  !.strs = calls[c].strs, !.stage = calls[c].pc,
                  !.idx = calls[c].idx, !.fpath = calls[c].fpath,
                  !.kept = IF ok THEN <<>> ELSE calls[c].failed,
                  !.rolled = calls[c].rolled]

Continue(c, nc) ==
    /\ calls' = [calls EXCEPT ![c] = nc]
    /\ ret' = NoRet
    /\ UNCHANGED <<status, streams, recorders, chunkTargets, trackOrder,
                   recordingTimestamp, totalChunks, released>>
    /\ cb' = NoCb /\ notice' = ""

\* a step of saveRecording ends the call (nc.pc = "end") or goes on
Proceed(c, nc) ==
    IF nc.pc = "end" THEN Finish(c, TRUE, nc.links) ELSE Continue(c, nc)

StopFrame ==
    UNCHANGED <<cfgVars, isMobileRecording, activeRecorderFormat,
                   nextSession, opened, recState, stopQueued,
                   emitted, delivered, acq, tornDown, probe>>

(***************************************************************************)
(* saveRecording: which await comes next.                                  *)
(***************************************************************************)
\* finalizeTrackFiles is run for chunkTargets[0] alone (single mode, one
\* target) or for every index of chunkTargets in turn (multiple mode)
LastIndex ==
    IF settings.outputMode = "single" THEN 1 ELSE Len(chunkTargets)

\* the call at the first await of finalizeTrackFiles for the next target
\* from index i on, or at the end of saveRecording
RECURSIVE NextTrack(_, _, _)
NextTrack(call, i, links) ==
    IF i > LastIndex \/ i > Len(chunkTargets)
    THEN [call EXCEPT !.pc = "end", !.links = links]
    ELSE LET t == chunkTargets[i] IN
         IF isMobileRecording
         THEN [call EXCEPT !.pc = "t_flush", !.idx = i, !.tgt = t,
                           !.links = links]
         ELSE IF targets[t].tempFilePath = NoPath
         THEN NextTrack(call, i + 1, links)
         ELSE [call EXCEPT !.pc = "t_resolve", !.idx = i, !.tgt = t,
                           !.links = links]

\* saveRecording up to its first await
SaveEnter(call) ==
    LET c0 == [call EXCEPT !.ts = recordingTimestamp, !.links = <<>>] IN
    IF settings.outputMode = "single" /\ Len(chunkTargets) # 1
    THEN [c0 EXCEPT !.pc = IF isMobileRecording THEN "m_flush"
                           ELSE "m_build"]
    ELSE NextTrack(c0, 1, <<>>)

\* the pending writes are done: saveRecording starts, or the rejected
\* pendingWrite of a target is thrown into the catch block
StopDrained(c) ==
    /\ calls[c].op = "stop" /\ calls[c].pc = "awaitDrain"
    /\ \A t \in calls[c].dts : QueuedIds(t) \cap calls[c].drain = {}
    /\ IF \E t \in calls[c].dts : targets[t].rejected
       THEN Finish(c, FALSE, <<>>)
       ELSE Proceed(c, SaveEnter(calls[c]))
    /\ UNCHANGED <<targets, files>>
    /\ StopFrame

InSave(c, pc) == calls[c].op = "stop" /\ calls[c].pc = pc

FinalName(c) ==
    PathOf("final", targets[calls[c].tgt].sourceName, calls[c].ts, 0,
           settings.recordingFormat)

\* const filePath = await this.resolveUniquePath(fileName)
FinalizeResolve(c) ==
    /\ InSave(c, "t_resolve")
    /\ \E ok \in Outcomes :
          IF ok
          THEN Continue(c, [calls[c] EXCEPT
                  !.fpath = resolveUniquePath(files, FinalName(c)),
                  !.pc = IF settings.recordingFormat = FORMAT_WAV
                         THEN "t_read" ELSE "t_rename"])
          ELSE Finish(c, FALSE, <<>>)
    /\ UNCHANGED <<targets, files>>
    /\ StopFrame

\* a copy instead of a rename: the temp file stays
FinalizeCopy(c) ==
    /\ InSave(c, "t_rename")
    /\ LET temp == targets[calls[c].tgt].tempFilePath
           fp == calls[c].fpath
       IN \E ok \in Outcomes :
          IF ok /\ exists(files, temp) /\ ~exists(files, fp)
          THEN /\ files' = FilePut(files, fp, files[temp])
               /\ Proceed(c, NextTrack(calls[c], calls[c].idx + 1,
                                       Append(calls[c].links, fp)))
          ELSE /\ Finish(c, FALSE, <<>>)
               /\ UNCHANGED files
    /\ UNCHANGED targets
    /\ StopFrame

\* a rename in two halves, the removal of the temp file first: when the
\* second half fails the temp file is gone and no final file exists
FinalizeRenameRemovingFirst(c) ==
    /\ InSave(c, "t_rename")
    /\ LET temp == targets[calls[c].tgt].tempFilePath
           fp == calls[c].fpath
       IN \E ok \in Outcomes :
          IF ok /\ exists(files, temp) /\ ~exists(files, fp)
          THEN /\ files' = FilePut(FileDel(files, temp), fp, files[temp])
               /\ Proceed(c, NextTrack(calls[c], calls[c].idx + 1,
                                       Append(calls[c].links, fp)))
          ELSE /\ Finish(c, FALSE, <<>>)
               /\ files' = FileDel(files, temp)
    /\ UNCHANGED targets
    /\ StopFrame

\* await adapter.rename(target.tempFilePath, filePath)
FinalizeRename(c) ==
    /\ InSave(c, "t_rename")
    /\ LET temp == targets[calls[c].tgt].tempFilePath
           fp == calls[c].fpath
       IN \E ok \in Outcomes :
          IF ok /\ exists(files, temp) /\ ~exists(files, fp)
          THEN /\ files' = FilePut(FileDel(files, temp), fp, files[temp])
               /\ Proceed(c, NextTrack(calls[c], calls[c].idx + 1,
                                       Append(calls[c].links, fp)))
          ELSE /\ Finish(c, FALSE, <<>>)
               /\ UNCHANGED files
    /\ UNCHANGED targets
    /\ StopFrame

\* const data = await adapter.readBinary(target.tempFilePath)
FinalizeReadTemp(c) ==
    /\ InSave(c, "t_read")
    /\ LET temp == targets[calls[c].tgt].tempFilePath IN
       \E ok \in Outcomes :
          IF ok /\ exists(files, temp)
          THEN Continue(c, [calls[c] EXCEPT !.blob = files[temp].data,
                                            !.pc = "t_decode"])
          ELSE Finish(c, FALSE, <<>>)
    /\ UNCHANGED <<targets, files>>
    /\ StopFrame

\* const wavBlob = await this.convertBlobToWav(...)
FinalizeDecode(c) ==
    /\ InSave(c, "t_decode")
    /\ \E ok \in BOOLEAN :
          IF ok /\ CanDecode(calls[c].blob)
          THEN Continue(c, [calls[c] EXCEPT !.pc = "t_create"])
          ELSE Finish(c, FALSE, <<>>)
    /\ UNCHANGED <<targets, files>>
    /\ StopFrame

\* await vault.createBinary(filePath, await wavBlob.arrayBuffer())
FinalizeCreateWav(c) ==
    /\ InSave(c, "t_create")
    /\ LET fp == calls[c].fpath IN
       \E ok \in Outcomes :
          IF ok /\ ~exists(files, fp)
          THEN /\ files' = FilePut(files, fp,
                                   Content(FORMAT_WAV, calls[c].blob))
               /\ Continue(c, [calls[c] EXCEPT !.pc = "t_remove"])
          ELSE /\ Finish(c, FALSE, <<>>)
               /\ UNCHANGED files
    /\ UNCHANGED targets
    /\ StopFrame

\* a removal of the temp file whose failure is passed over
FinalizeRemoveTempLenient(c) ==
    /\ InSave(c, "t_remove")
    /\ LET temp == targets[calls[c].tgt].tempFilePath IN
       \E ok \in Outcomes :
          /\ files' = IF ok /\ exists(files, temp) THEN FileDel(files, temp)
                      ELSE files
          /\ Proceed(c, NextTrack(calls[c], calls[c].idx + 1,
                         Append(calls[c].links, calls[c].fpath)))
    /\ UNCHANGED targets
    /\ StopFrame

\* removeTemporaryArtifacts([target.tempFilePath]): a failed removal is
\* collected, and the rollback of the final file comes next
FinalizeRemoveTemp(c) ==
    /\ InSave(c, "t_remove")
    /\ LET temp == targets[calls[c].tgt].tempFilePath IN
       \E ok \in Outcomes :
          IF ok /\ exists(files, temp)
          THEN /\ files' = FileDel(files, temp)
               /\ Proceed(c, NextTrack(calls[c], calls[c].idx + 1,
                              Append(calls[c].links, calls[c].fpath)))
          ELSE /\ Continue(c, [calls[c] EXCEPT !.failed = <<temp>>,
                                               !.pc = "rollback"])
               /\ UNCHANGED files
    /\ UNCHANGED targets
    /\ StopFrame

\* rollbackFinalFile(filePath): remove it, swallow a failure
rollbackFinalFile(c) ==
    /\ InSave(c, "rollback")
    /\ LET fp == calls[c].fpath IN
       \E ok \in Outcomes :
          LET done == ok /\ exists(files, fp) IN
          /\ files' = IF done THEN FileDel(files, fp) ELSE files
          /\ Continue(c, [calls[c] EXCEPT !.rolled = done, !.pc = "kept"])
    /\ UNCHANGED targets
    /\ StopFrame

\* back in the caller of rollbackFinalFile: throw new Error('Temporary
\* recording artifacts were kept for recovery: ' + failedCleanupPaths)
ThrowKeptArtifacts(c) ==
    /\ InSave(c, "kept")
    /\ Finish(c, FALSE, <<>>)
    /\ UNCHANGED <<targets, files>>
    /\ StopFrame

\* finalizeTrackFiles on mobile: await this.flushMobileBuffer(target);
\* the segment paths are the result
FinalizeFlush(c) ==
    /\ InSave(c, "t_flush")
    /\ LET t == calls[c].tgt IN
       \E ok \in FlushOutcomes :
          LET r == flushMobileBuffer(targets[t], files, ok) IN
          /\ files' = r.files
          /\ targets' = [targets EXCEPT ![t] = r.target]
          /\ IF r.ok
             THEN Proceed(c, NextTrack(calls[c], calls[c].idx + 1,
                             calls[c].links \o r.target.segmentPaths))
             ELSE Finish(c, FALSE, <<>>)
    /\ StopFrame

(***************************************************************************)
(* saveRecording, several tracks into a single file.                       *)
(***************************************************************************)
\* Promise.all(chunkTargets.map(target => this.flushMobileBuffer(target)))
RECURSIVE FlushAll(_, _, _, _)
FlushAll(i, tgts, fs, bad) ==
    IF i > Len(chunkTargets) THEN [targets |-> tgts, files |-> fs, ok |-> TRUE]
    ELSE LET t == chunkTargets[i]
             r == flushMobileBuffer(tgts[t], fs, i \notin bad)
             rest == FlushAll(i + 1, [tgts EXCEPT ![t] = r.target], r.files,
                              bad)
         IN [rest EXCEPT !.ok = r.ok /\ rest.ok]

MergeFlush(c) ==
    /\ InSave(c, "m_flush")
    /\ \E bad \in FlushRejections(1..Len(chunkTargets)) :
          LET r == FlushAll(1, targets, files, bad) IN
          /\ files' = r.files
          /\ targets' = r.targets
          /\ IF r.ok THEN Continue(c, [calls[c] EXCEPT !.pc = "m_build"])
             ELSE Finish(c, FALSE, <<>>)
    /\ StopFrame

\* buildTrackBlob(target): null when nothing was captured on mobile
buildTrackBlob(tg, fs) ==
    IF tg.tempFilePath # NoPath
    THEN [null |-> FALSE, ok |-> exists(fs, tg.tempFilePath),
          data |-> IF exists(fs, tg.tempFilePath)
                   THEN fs[tg.tempFilePath].data ELSE <<>>]
    ELSE IF tg.segmentPaths = <<>> /\ tg.bufferedChunks = <<>>
    THEN [null |-> TRUE, ok |-> TRUE, data |-> <<>>]
    ELSE LET segs == tg.segmentPaths
             allThere == \A k \in 1..Len(segs) : exists(fs, segs[k])
         IN [null |-> FALSE, ok |-> allThere,
             data |-> IF allThere
                      THEN Flatten([k \in 1..Len(segs) |-> fs[segs[k]].data])
                           \o Ids(tg.bufferedChunks)
                      ELSE <<>>]

\* mergeAudioTracks / combineTracksWithoutConversion: read every track
MergeBuild(c) ==
    /\ InSave(c, "m_build")
    /\ LET bs == [i \in 1..Len(chunkTargets) |->
                     buildTrackBlob(targets[chunkTargets[i]], files)]
           nonEmpty == SelectSeq(bs, LAMBDA b : ~b.null /\ b.data # <<>>)
           merged == Flatten([k \in 1..Len(nonEmpty) |-> nonEmpty[k].data])
       IN \E ok \in Outcomes :
          IF ~ok \/ \E i \in 1..Len(bs) : ~bs[i].ok
          THEN Finish(c, FALSE, <<>>)
          ELSE IF settings.recordingFormat = FORMAT_WAV
          THEN Continue(c, [calls[c] EXCEPT !.blobs = bs, !.pc = "m_mix"])
          ELSE IF nonEmpty = <<>>
          THEN Finish(c, FALSE, <<>>)
          ELSE Continue(c, [calls[c] EXCEPT !.blob = merged,
                                            !.pc = "m_resolve"])
    /\ UNCHANGED <<targets, files>>
    /\ StopFrame

\* mergeAudioTracks: decode every track, render the mix, encode it
MergeMix(c) ==
    /\ InSave(c, "m_mix")
    /\ LET valid == SelectSeq(calls[c].blobs, LAMBDA b : ~b.null)
           mixed == Flatten([k \in 1..Len(valid) |-> valid[k].data])
       IN \E ok \in BOOLEAN :
          IF ok /\ valid # <<>>
             /\ \A k \in 1..Len(valid) : CanDecode(valid[k].data)
          THEN Continue(c, [calls[c] EXCEPT !.blob = mixed, !.blobs = <<>>,
                                            !.pc = "m_resolve"])
          ELSE Finish(c, FALSE, <<>>)
    /\ UNCHANGED <<targets, files>>
    /\ StopFrame

MergedName(c) ==
    PathOf("merged", 0, calls[c].ts, 0, settings.recordingFormat)

\* saveAudioFile: const filePath = await this.resolveUniquePath(fileName)
MergeResolve(c) ==
    /\ InSave(c, "m_resolve")
    /\ \E ok \in Outcomes :
          IF ok
          THEN Continue(c, [calls[c] EXCEPT
                  !.fpath = resolveUniquePath(files, MergedName(c)),
                  !.pc = "m_create"])
          ELSE Finish(c, FALSE, <<>>)
    /\ UNCHANGED <<targets, files>>
    /\ StopFrame

\* saveAudioFile: await vault.createBinary(filePath, arrayBuffer)
MergeCreate(c) ==
    /\ InSave(c, "m_create")
    /\ LET fp == calls[c].fpath IN
       \E ok \in Outcomes :
          IF ok /\ ~exists(files, fp)
          THEN /\ files' = FilePut(files, fp,
                     Content(settings.recordingFormat, calls[c].blob))
               /\ Continue(c, [calls[c] EXCEPT !.pc = "m_cleanup"])
          ELSE /\ Finish(c, FALSE, <<>>)
               /\ UNCHANGED files
    /\ UNCHANGED targets
    /\ StopFrame

\* the temp files alone, without the segments
TempPathsOnly ==
    Flatten([i \in 1..Len(chunkTargets) |->
        LET tg == targets[chunkTargets[i]] IN
        IF tg.tempFilePath # NoPath THEN <<tg.tempFilePath>> ELSE <<>>])

IntermediatePaths ==
    Flatten([i \in 1..Len(chunkTargets) |->
        LET tg == targets[chunkTargets[i]] IN
        (IF tg.tempFilePath # NoPath THEN <<tg.tempFilePath>> ELSE <<>>)
        \o tg.segmentPaths])

RECURSIVE RemoveAll(_, _)
RemoveAll(fs, ps) ==
    IF ps = <<>> THEN fs ELSE RemoveAll(FileDel(fs, Head(ps)), Tail(ps))

\* cleanupIntermediateFiles: remove every temp file and segment, collect
\* the paths whose removal failed
cleanupIntermediateFiles(c) ==
    /\ InSave(c, "m_cleanup")
    /\ LET paths == IntermediatePaths IN
       \E bad \in Rejections(Range(paths)) :
          LET failedPaths ==
                  SelectSeq(paths, LAMBDA p : p \in bad \/ ~exists(files, p))
              removed ==
                  SelectSeq(paths, LAMBDA p : p \notin bad /\ exists(files, p))
          IN /\ files' = RemoveAll(files, removed)
             /\ IF failedPaths = <<>>
                THEN Finish(c, TRUE, <<calls[c].fpath>>)
                ELSE Continue(c, [calls[c] EXCEPT !.failed = failedPaths,
                                                  !.pc = "rollback"])
    /\ UNCHANGED targets
    /\ StopFrame

(***************************************************************************)
(* getAudioStream(deviceId, sampleRate): the retry loop around              *)
(* getUserMedia.  acq.outcomes lists what getUserMedia answered, in order;  *)
(* acq.attempts counts its invocations; acq.attempt is the loop variable;   *)
(* acq.asked lists the device id each invocation asked for.                *)
(***************************************************************************)
DeviceIds == {"", "mic-1", "mic-2"}
\* what one getUserMedia call does: a stream, a DOMException by name, or a
\* value that is no DOMException
GumOutcomes == {"stream", "AbortError", "NotReadableError",
                "NotAllowedError", "NotFoundError", "OverconstrainedError",
                "TypeError"}

\* a retry test that retries after every failure
isRetryableAlways(error) == error # "stream"

\* the retry test naming AbortError alone
isRetryableAbortOnly(error) == error = "AbortError"

isRetryable(error) == error \in {"AbortError", "NotReadableError"}

\* a text is the sequence of its parts, an interpolated value being a part
\* of its own
\* an AudioStreamError whose message leaves the device out
AudioStreamErrorAnonymous(originalError, deviceId) ==
    [dom |-> FALSE, name |-> "AudioStreamError",
     originalError |-> originalError, deviceId |-> deviceId,
     message |-> <<"Failed to access audio device. Original error: ",
                   originalError>>]

\* new AudioStreamError(originalError, deviceId): no DOMException, the
\* message names the device when the id is not empty
AudioStreamError(originalError, deviceId) ==
    [dom |-> FALSE, name |-> "AudioStreamError",
     originalError |-> originalError, deviceId |-> deviceId,
     message |->
        IF deviceId # ""
        THEN <<"Failed to access audio device ", deviceId,
               ". Please verify the device in plugin settings. Original error: ",
               originalError>>
        ELSE <<"Failed to access audio device. Original error: ",
               originalError>>]

\* console.debug(`Retry ${attempt + 1}/${MAX_RETRIES} for device access`)
RetryLog(attempt) == [level |-> "debug", retry |-> attempt + 1]

\* handleStartRecordingError(error): the text of its Notice
handleStartRecordingError(error) ==
    IF error.dom
    THEN IF error.name = "NotAllowedError"
         THEN <<"Microphone access denied. Please grant permission in browser settings.">>
         ELSE IF error.name = "NotFoundError"
         THEN <<"No microphone found. Please connect an audio input device.">>
         ELSE IF error.name = "NotReadableError"
         THEN <<"Microphone is in use by another application.">>
         ELSE <<"Recording error: ">> \o error.message
    ELSE <<"Error starting recording: ">> \o error.message

sessionVars == <<settings, platform, awaitCalls, orderly,
                 storageFails, limits,
                 status,
                 streams, recorders, chunkTargets, trackOrder,
                 recordingTimestamp, totalChunks, isMobileRecording,
                 activeRecorderFormat, nextSession, opened, released,
                 recState, stopQueued, emitted, delivered, targets, files,
                 calls, cb, notice, ret, tornDown>>

\* the call: let lastError = null; attempt = 0
getAudioStream(deviceId) ==
    /\ acq.pc = "idle"
    /\ acq' = [NoAcq EXCEPT !.pc = "attempt", !.deviceId = deviceId]
    /\ UNCHANGED <<sessionVars, probe>>

\* one pass of the loop body: await getUserMedia(...), and the catch block
AcquireAttempt ==
    /\ acq.pc = "attempt"
    /\ acq.attempt <= MAX_RETRIES
    /\ \E o \in GumOutcomes :
          LET tried == [acq EXCEPT !.attempts = @ + 1,
                                   !.outcomes = Append(@, o),
                                   !.asked = Append(@, acq.deviceId)]
          IN acq' = IF o = "stream"
                    THEN [tried EXCEPT !.pc = "returned", !.result = "stream"]
                    ELSE IF isRetryable(o) /\ acq.attempt < MAX_RETRIES
                    THEN [tried EXCEPT !.pc = "delay", !.lastError = o,
                             !.logged = Append(@, RetryLog(acq.attempt))]
                    ELSE [tried EXCEPT !.pc = "thrown",
                                       !.result = "AudioStreamError",
                                       !.lastError = o,
                                       !.errDevice = acq.deviceId]
    /\ UNCHANGED <<sessionVars, probe>>

\* await delay(RETRY_DELAY_MS); continue
RetryDelayElapsed ==
    /\ acq.pc = "delay"
    /\ acq' = [acq EXCEPT !.pc = "attempt", !.attempt = @ + 1,
                          !.delays = @ + 1]
    /\ UNCHANGED <<sessionVars, probe>>

\* the rejection of getAudioStream rejects getAudioStreams and reaches the
\* catch block of startRecording: handleStartRecordingError(error) shows
\* its Notice and logs the error with console.error
CatchStartError ==
    /\ acq.pc = "thrown" /\ ~acq.caught
    /\ LET error == AudioStreamError(acq.lastError, acq.errDevice) IN
       acq' = [acq EXCEPT
          !.caught = TRUE,
          !.shown = Append(@, handleStartRecordingError(error)),
          !.logged = Append(@, [level |-> "error", error |-> error])]
    /\ UNCHANGED <<sessionVars, probe>>

(***************************************************************************)
(* The calls the plugin and the tests make.                                *)
(***************************************************************************)
startRecording(c) == CanBegin(c) /\ CanStart /\ StartBegin(c)

stopRecording(c) == CanBegin(c) /\ StopBegin(c)

\* a toggle that stops while Recording and starts otherwise
toggleRecordingWhileRecording(c) ==
    /\ CanBegin(c)
    /\ IF status = Recording THEN StopBegin(c) ELSE StartBegin(c)

toggleRecording(c) ==
    /\ CanBegin(c)
    /\ IF status = Idle THEN StartBegin(c) ELSE StopBegin(c)

Init ==
    /\ settings \in SettingsSet
    /\ platform \in PlatformSet
    /\ awaitCalls \in BOOLEAN
    /\ orderly \in BOOLEAN
    /\ storageFails \in BOOLEAN
    /\ limits = [sessions |-> MaxSessions, chunks |-> MaxChunks]
    /\ InitManager
    /\ InitWorld

Next ==
    \/ \E c \in CallIds : startRecording(c)
    \/ \E c \in CallIds : stopRecording(c)
    \/ \E c \in CallIds : toggleRecording(c)
    \/ togglePauseResume
    \/ cleanup
    \/ \E c \in CallIds : StartDevicesValidated(c)
    \/ \E c \in CallIds : StartStreamsAcquired(c)
    \/ \E c \in CallIds : \E i \in 1..MaxTracks : StartTrackResolve(c, i)
    \/ \E c \in CallIds : \E i \in 1..MaxTracks : StartTrackCreate(c, i)
    \/ \E c \in CallIds : StartTargetsReady(c)
    \/ \E r \in Obj : DataAvailable(r)
    \/ \E t \in Obj : ChunkRead(t)
    \/ \E t \in Obj : ChunkWrite(t)
    \/ \E t \in Obj : ChunkBuffer(t)
    \/ \E t \in Obj : ChunkFlush(t)
    \/ \E r \in Obj : RecorderStopped(r)
    \/ \E c \in CallIds : StopConfirmed(c)
    \/ \E c \in CallIds : StopDrained(c)
    \/ \E c \in CallIds : FinalizeResolve(c)
    \/ \E c \in CallIds : FinalizeRename(c)
    \/ \E c \in CallIds : FinalizeReadTemp(c)
    \/ \E c \in CallIds : FinalizeDecode(c)
    \/ \E c \in CallIds : FinalizeCreateWav(c)
    \/ \E c \in CallIds : FinalizeRemoveTemp(c)
    \/ \E c \in CallIds : rollbackFinalFile(c)
    \/ \E c \in CallIds : ThrowKeptArtifacts(c)
    \/ \E c \in CallIds : FinalizeFlush(c)
    \/ \E c \in CallIds : MergeFlush(c)
    \/ \E c \in CallIds : MergeBuild(c)
    \/ \E c \in CallIds : MergeMix(c)
    \/ \E c \in CallIds : MergeResolve(c)
    \/ \E c \in CallIds : MergeCreate(c)
    \/ \E c \in CallIds : cleanupIntermediateFiles(c)

Spec == Init /\ [][Next]_vars

\* callers that keep to the contract: they await every startRecording /
\* stopRecording / toggleRecording and start a session only while Idle
SeqInit == Init /\ awaitCalls = TRUE /\ orderly = TRUE
SeqSpec == SeqInit /\ [][Next]_vars

\* callers that do not await: the ribbon and the commands of main.ts call
\* toggleRecording() with `void`, so calls overlap.  One desktop track.
AnyOrderInit ==
    /\ settings = [recordingFormat |-> FORMAT_WEBM, outputMode |-> "multiple",
                   tracks |-> 1,
                   useSourceNamesForTracks |-> FALSE]
    /\ platform = [supported |-> {FORMAT_WEBM, FORMAT_OGG}, mobile |-> FALSE]
    /\ awaitCalls = FALSE
    /\ orderly = FALSE
    /\ storageFails \in BOOLEAN
    /\ limits = [sessions |-> MaxSessions, chunks |-> OverlapChunks]
    /\ InitManager
    /\ InitWorld
AnyOrderNext ==
    \/ \E c \in CallIds : startRecording(c)
    \/ \E c \in CallIds : stopRecording(c)
    \/ \E c \in CallIds : toggleRecording(c)
    \/ togglePauseResume
    \/ cleanup
    \/ \E c \in CallIds : StartDevicesValidated(c)
    \/ \E c \in CallIds : StartStreamsAcquired(c)
    \/ \E c \in CallIds : \E i \in 1..MaxTracks : StartTrackResolve(c, i)
    \/ \E c \in CallIds : \E i \in 1..MaxTracks : StartTrackCreate(c, i)
    \/ \E c \in CallIds : StartTargetsReady(c)
    \/ \E r \in Obj : DataAvailable(r)
    \/ \E t \in Obj : ChunkRead(t)
    \/ \E t \in Obj : ChunkWrite(t)
    \/ \E r \in Obj : RecorderStopped(r)
    \/ \E c \in CallIds : StopConfirmed(c)
    \/ \E c \in CallIds : StopDrained(c)
    \/ \E c \in CallIds : FinalizeResolve(c)
    \/ \E c \in CallIds : FinalizeRename(c)
AnyOrderSpec == AnyOrderInit /\ [][AnyOrderNext]_vars

\* the ribbon icon and the start-stop command alone: toggleRecording() is
\* called with `void`, never awaited, and a second session can be acquired
\* while the first is held.  One desktop track, the storage succeeding.
ToggleInit ==
    /\ settings = [recordingFormat |-> FORMAT_WEBM, outputMode |-> "multiple",
                   tracks |-> 1,
                   useSourceNamesForTracks |-> FALSE]
    /\ platform = [supported |-> {FORMAT_WEBM, FORMAT_OGG}, mobile |-> FALSE]
    /\ awaitCalls = FALSE
    /\ orderly = FALSE
    /\ storageFails = FALSE
    /\ limits = [sessions |-> ToggleSessions, chunks |-> OverlapChunks]
    /\ InitManager
    /\ InitWorld
ToggleNext ==
    \/ \E c \in CallIds : toggleRecording(c)
    \/ \E c \in CallIds : StartDevicesValidated(c)
    \/ \E c \in CallIds : StartStreamsAcquired(c)
    \/ \E c \in CallIds : \E i \in 1..MaxTracks : StartTrackResolve(c, i)
    \/ \E c \in CallIds : \E i \in 1..MaxTracks : StartTrackCreate(c, i)
    \/ \E c \in CallIds : StartTargetsReady(c)
    \/ \E r \in Obj : DataAvailable(r)
    \/ \E t \in Obj : ChunkRead(t)
    \/ \E t \in Obj : ChunkWrite(t)
    \/ \E r \in Obj : RecorderStopped(r)
    \/ \E c \in CallIds : StopConfirmed(c)
    \/ \E c \in CallIds : StopDrained(c)
    \/ \E c \in CallIds : FinalizeResolve(c)
    \/ \E c \in CallIds : FinalizeRename(c)
ToggleSpec == ToggleInit /\ [][ToggleNext]_vars

\* awaited calls of a desktop session of MaxTracks tracks named after their
\* devices (useSourceNamesForTracks): the names of two tracks may coincide
NameInit ==
    /\ settings \in [recordingFormat : {FORMAT_WEBM},
                     outputMode : {"multiple"},
                     tracks : {MaxTracks},
                     useSourceNamesForTracks : {TRUE}]
    /\ platform = [supported |-> {FORMAT_WEBM, FORMAT_OGG}, mobile |-> FALSE]
    /\ awaitCalls = TRUE
    /\ orderly = TRUE
    /\ storageFails \in BOOLEAN
    /\ limits = [sessions |-> MaxSessions, chunks |-> MaxChunks]
    /\ InitManager
    /\ InitWorld
NameNext ==
    \/ \E c \in CallIds : startRecording(c)
    \/ \E c \in CallIds : stopRecording(c)
    \/ \E c \in CallIds : StartDevicesValidated(c)
    \/ \E c \in CallIds : StartStreamsAcquired(c)
    \/ \E c \in CallIds : \E i \in 1..MaxTracks : StartTrackName(c, i)
    \/ \E c \in CallIds : \E i \in 1..MaxTracks : StartTrackResolve(c, i)
    \/ \E c \in CallIds : \E i \in 1..MaxTracks : StartTrackCreate(c, i)
    \/ \E c \in CallIds : StartTargetsReady(c)
    \/ \E r \in Obj : DataAvailable(r)
    \/ \E t \in Obj : ChunkRead(t)
    \/ \E t \in Obj : ChunkWrite(t)
    \/ \E r \in Obj : RecorderStopped(r)
    \/ \E c \in CallIds : StopConfirmed(c)
    \/ \E c \in CallIds : StopDrained(c)
    \/ \E c \in CallIds : FinalizeResolve(c)
    \/ \E c \in CallIds : FinalizeRename(c)
NameSpec == NameInit /\ [][NameNext]_vars

\* awaited calls with the scheduling of the event loop: a settled promise
\* has its continuation run, a queued 'stop' event is dispatched, a queued
\* write job is run
StopStep(c) ==
    \/ StopConfirmed(c) \/ StopDrained(c)
    \/ FinalizeResolve(c) \/ FinalizeRename(c) \/ FinalizeReadTemp(c)
    \/ FinalizeDecode(c) \/ FinalizeCreateWav(c) \/ FinalizeRemoveTemp(c)
    \/ rollbackFinalFile(c) \/ ThrowKeptArtifacts(c) \/ FinalizeFlush(c)
    \/ MergeFlush(c) \/ MergeBuild(c) \/ MergeMix(c) \/ MergeResolve(c)
    \/ MergeCreate(c) \/ cleanupIntermediateFiles(c)
QueueStep(t) ==
    ChunkRead(t) \/ ChunkWrite(t) \/ ChunkBuffer(t) \/ ChunkFlush(t)
FairInit ==
    /\ settings \in [recordingFormat : {FORMAT_WEBM, FORMAT_WAV},
                     outputMode : {"single", "multiple"},
                     tracks : 1..MaxTracks,
     useSourceNamesForTracks : {FALSE}]
    /\ platform \in [supported : {{FORMAT_WEBM, FORMAT_OGG}},
                     mobile : BOOLEAN]
    /\ awaitCalls = TRUE
    /\ orderly \in BOOLEAN
    /\ storageFails = TRUE
    /\ limits = [sessions |-> MaxSessions, chunks |-> FairChunks]
    /\ InitManager
    /\ InitWorld
Fairness ==
    /\ \A c \in CallIds : WF_vars(StopStep(c))
    /\ \A r \in Obj : WF_vars(RecorderStopped(r))
    /\ \A t \in Obj : WF_vars(QueueStep(t))
FairSpec == FairInit /\ [][Next]_vars /\ Fairness

\* one call of getAudioStream, for every device id
AcqInit ==
    /\ settings = [recordingFormat |-> FORMAT_WEBM, outputMode |-> "multiple",
                   tracks |-> 1,
                   useSourceNamesForTracks |-> FALSE]
    /\ platform = [supported |-> {FORMAT_WEBM, FORMAT_OGG}, mobile |-> FALSE]
    /\ awaitCalls = TRUE
    /\ orderly = TRUE
    /\ storageFails = FALSE
    /\ limits = [sessions |-> MaxSessions, chunks |-> MaxChunks]
    /\ InitManager
    /\ InitWorld
AcqNext ==
    \/ \E d \in DeviceIds : getAudioStream(d)
    \/ AcquireAttempt
    \/ RetryDelayElapsed
    \/ CatchStartError
AcqSpec == AcqInit /\ [][AcqNext]_vars

(***************************************************************************)
(* The capability functions applied on every host: the host supports any   *)
(* subset of the six audio MIME types, the settings name any format.       *)
(***************************************************************************)
AllFormats == Range(CANDIDATE_FORMATS) \cup {FORMAT_WAV}
CapInit ==
    /\ settings \in [recordingFormat : AllFormats, outputMode : {"multiple"},
                     tracks : {1},
                     useSourceNamesForTracks : {FALSE}]
    /\ platform \in [supported : SUBSET AllFormats, mobile : {FALSE}]
    /\ awaitCalls = TRUE
    /\ orderly = TRUE
    /\ storageFails = FALSE
    /\ limits = [sessions |-> MaxSessions, chunks |-> MaxChunks]
    /\ InitManager
    /\ InitWorld
ProbeResolveRecorderFormat ==
    /\ probe' = [fn |-> "resolveRecorderFormat",
                 arg |-> settings.recordingFormat,
                 out |-> resolveRecorderFormat]
    /\ UNCHANGED <<sessionVars, acq>>
ProbeValidateRecordingCapability(f) ==
    /\ probe' = [fn |-> "validateRecordingCapability", arg |-> f,
                 out |-> validateRecordingCapability(f)]
    /\ UNCHANGED <<sessionVars, acq>>
ProbeDetectSupportedFormats ==
    /\ probe' = [fn |-> "detectSupportedFormats", arg |-> "",
                 out |-> detectSupportedFormats]
    /\ UNCHANGED <<sessionVars, acq>>
CapNext ==
    \/ ProbeResolveRecorderFormat
    \/ \E f \in AllFormats : ProbeValidateRecordingCapability(f)
    \/ ProbeDetectSupportedFormats
CapSpec == CapInit /\ [][CapNext]_vars

(***************************************************************************)
(* resolveUniquePath(fileName) await by await, called again and again for  *)
(* one file name; the caller creates each returned path before the next    *)
(* call, as saveAudioFile does.  The storage starts with any set of the    *)
(* names the loop can try or a user can have made.                         *)
(***************************************************************************)
BasePath == PathOf("final", 1, 1, 0, FORMAT_WEBM)
Suffixed(sfx) == [BasePath EXCEPT !.sfx = sfx]
PathPool == {Suffixed(<<>>), Suffixed(<<1>>), Suffixed(<<2>>),
             Suffixed(<<3>>), Suffixed(<<1, 2>>), Suffixed(<<1, 2, 3>>)}
PathInit ==
    /\ settings = [recordingFormat |-> FORMAT_WEBM, outputMode |-> "multiple",
                   tracks |-> 1,
                   useSourceNamesForTracks |-> FALSE]
    /\ platform = [supported |-> {FORMAT_WEBM, FORMAT_OGG}, mobile |-> FALSE]
    /\ awaitCalls = TRUE
    /\ orderly = TRUE
    /\ storageFails = FALSE
    /\ limits = [sessions |-> MaxSessions, chunks |-> MaxChunks]
    /\ InitManager
    /\ nextSession = 1
    /\ opened = {}
    /\ released = [o \in Obj |-> 0]
    /\ recState = [o \in Obj |-> "none"]
    /\ stopQueued = {}
    /\ emitted = [o \in Obj |-> 0]
    /\ delivered = [o \in Obj |-> <<>>]
    /\ targets = [o \in Obj |-> NoTarget]
    /\ \E S \in SUBSET PathPool :
          files = [q \in S |-> Content(FORMAT_WEBM, <<>>)]
    /\ calls = [c \in CallIds |-> NoCall]
    /\ cb = NoCb
    /\ notice = ""
    /\ ret = NoRet
    /\ acq = NoAcq
    /\ tornDown = FALSE
    /\ probe = [fn |-> "resolveUniquePath", pc |-> "idle",
                filePath |-> NoPath, counter |-> 0, before |-> {},
                returned |-> <<>>]
PathFrame ==
    UNCHANGED <<mgrVars, cfgVars, nextSession, opened, released, recState,
                stopQueued, emitted, delivered, targets, calls, cb, notice,
                ret, acq, tornDown>>
\* let filePath = normalizePath(base + '/' + fileName); let counter = 1
ResolveCall ==
    /\ probe.pc = "idle"
    /\ Len(probe.returned) < MaxResolves
    /\ probe' = [probe EXCEPT !.pc = "loop", !.filePath = BasePath,
                              !.counter = 1, !.before = DOMAIN files]
    /\ UNCHANGED files
    /\ PathFrame
\* while (await adapter.exists(filePath)) { ...; counter++ }  return filePath
ResolveExists ==
    /\ probe.pc = "loop"
    /\ probe' = IF exists(files, probe.filePath)
                THEN [probe EXCEPT
                        !.filePath = [@ EXCEPT !.sfx = Append(@, probe.counter)],
                        !.counter = @ + 1]
                ELSE [probe EXCEPT !.pc = "returned"]
    /\ UNCHANGED files
    /\ PathFrame
\* the caller: await adapter.createBinary(filePath, arrayBuffer)
CreateReturned ==
    /\ probe.pc = "returned"
    /\ files' = FilePut(files, probe.filePath, Content(FORMAT_WEBM, <<>>))
    /\ probe' = [probe EXCEPT !.pc = "idle",
                              !.returned = Append(@, probe.filePath)]
    /\ PathFrame
PathNext == ResolveCall \/ ResolveExists \/ CreateReturned
PathSpec == PathInit /\ [][PathNext]_vars /\ WF_vars(ResolveExists)

(***************************************************************************)
(* WavEncoder.bufferToWave(audioBuffer, length).  A sample is a multiple   *)
(* of 1/SampleSteps, held as its numerator, or NaN (held as a numerator no  *)
(* sample has); the channel data of a buffer alternates between two        *)
(* samples a and b.  The result is the size of the ArrayBuffer and the     *)
(* int16 values of its data part.                                          *)
(***************************************************************************)
NaN == MaxAmplitude * SampleSteps + 1
Samples == (-(MaxAmplitude * SampleSteps)..(MaxAmplitude * SampleSteps))
           \cup {NaN}
AudioBuffers ==
    [numberOfChannels : 1..MaxChannels, length : 0..MaxLength,
     a : Samples, b : Samples]
\* audioBuffer.getChannelData(channelIndex)[sampleIndex]
getChannelData(audioBuffer, channelIndex, sampleIndex) ==
    IF (channelIndex + sampleIndex) % 2 = 0
    THEN audioBuffer.a ELSE audioBuffer.b

\* Math.min(1, x) and Math.max(-1, x): NaN if an argument is NaN
MathMin1(x) ==
    IF x = NaN THEN NaN ELSE IF x > SampleSteps THEN SampleSteps ELSE x
MathMax1(x) ==
    IF x = NaN THEN NaN ELSE IF x < -SampleSteps THEN -SampleSteps ELSE x

\* a sample passed on as it is
unclamped(x) == x

\* Math.max(-1, Math.min(1, sample))
clampSample(x) == MathMax1(MathMin1(x))

\* sample < 0 ? sample * 0x8000 : sample * 0x7fff, as a numerator over
\* SampleSteps (NaN < 0 is false and NaN * 0x7fff is NaN)
scaleSample(x) ==
    IF x = NaN THEN NaN ELSE IF x < 0 THEN x * 32768 ELSE x * 32767

\* DataView.setInt16 of the number num / SampleSteps: ToInt16 truncates
\* toward zero and wraps modulo 2^16; NaN is stored as 0
setInt16(num) ==
    IF num = NaN THEN 0
    ELSE LET t == IF num >= 0 THEN num \div SampleSteps
                  ELSE -((-num) \div SampleSteps)
             m == t % 65536
         IN IF m >= 32768 THEN m - 65536 ELSE m

MathMin(x, y) == IF x < y THEN x ELSE y

bufferToWave(audioBuffer, length) ==
    LET numOfChan == audioBuffer.numberOfChannels
        totalLength == length * numOfChan * 2 + 44
        sampleCount == MathMin(length, audioBuffer.length)
    IN [size |-> totalLength,
        type |-> "audio/wav",
        subchunk2Size |-> totalLength - 44,
        int16 |-> [k \in 0..(length * numOfChan - 1) |->
            LET sampleIndex == k \div numOfChan
                channelIndex == k % numOfChan
            IN IF sampleIndex < sampleCount
               THEN setInt16(scaleSample(clampSample(
                        getChannelData(audioBuffer, channelIndex,
                                       sampleIndex))))
               ELSE 0]]

WavInit ==
    /\ settings = [recordingFormat |-> FORMAT_WAV, outputMode |-> "multiple",
                   tracks |-> 1,
                   useSourceNamesForTracks |-> FALSE]
    /\ platform = [supported |-> {FORMAT_WEBM, FORMAT_OGG}, mobile |-> FALSE]
    /\ awaitCalls = TRUE
    /\ orderly = TRUE
    /\ storageFails = FALSE
    /\ limits = [sessions |-> MaxSessions, chunks |-> MaxChunks]
    /\ InitManager
    /\ InitHost
    /\ probe \in [fn : {"none"}, audioBuffer : AudioBuffers,
                   length : 0..(MaxLength + 1)]
ProbeBufferToWave ==
    /\ probe.fn = "none"
    /\ probe' = [probe EXCEPT !.fn = "bufferToWave"]
                @@ [out |-> bufferToWave(probe.audioBuffer, probe.length)]
    /\ UNCHANGED <<sessionVars, acq>>
WavSpec == WavInit /\ [][ProbeBufferToWave]_vars

(***************************************************************************)
(* The numbering of the tracks of a session: startRecording takes the      *)
(* track order that getAudioStreams hands back and numbers the track of    *)
(* each recorder from it, for every configuration of the track slots.      *)
(***************************************************************************)
TrackInit ==
    /\ settings = [recordingFormat |-> FORMAT_WEBM, outputMode |-> "multiple",
                   tracks |-> 1,
                   useSourceNamesForTracks |-> FALSE]
    /\ platform = [supported |-> {FORMAT_WEBM, FORMAT_OGG}, mobile |-> FALSE]
    /\ awaitCalls = TRUE
    /\ orderly = TRUE
    /\ storageFails = FALSE
    /\ limits = [sessions |-> MaxSessions, chunks |-> MaxChunks]
    /\ InitManager
    /\ InitHost
    /\ probe \in [fn : {"none"}, enableMultiTrack : BOOLEAN,
                   trackAudioSources : [1..MaxSlots -> SlotValues]]
\* startRecording up to the naming of the tracks: one recorder per stream,
\* one stream per ordered source, or the single default stream
ProbeTrackNumbers ==
    /\ probe.fn = "none"
    /\ LET order == IF probe.enableMultiTrack
                    THEN getOrderedTrackSources(probe.trackAudioSources)
                    ELSE <<>>
           n == IF probe.enableMultiTrack THEN Len(order) ELSE 1
       IN probe' = [probe EXCEPT !.fn = "startRecording"]
                   @@ [trackOrder |-> order,
                       trackNumbers |-> [i \in 1..n |-> trackNumberAt(order, i)]]
    /\ UNCHANGED <<sessionVars, acq>>
TrackSpec == TrackInit /\ [][ProbeTrackNumbers]_vars

(***************************************************************************)
(* Claims.                                                                 *)
(***************************************************************************)
SessionCleared ==
    /\ status = Idle
    /\ streams = <<>>
    /\ recorders = <<>>
    /\ chunkTargets = <<>>
    /\ trackOrder = <<>>
    /\ recordingTimestamp = 0
    /\ totalChunks = 0

\* C1: every stopRecording() called while Recording or Paused eventually
\* returns, and when it returns the status is Idle and streams, recorders,
\* track targets, track order, timestamp and chunk counter are cleared,
\* whether saveRecording succeeded or threw, given that every recorder the
\* call waits for delivers its 'stop' event (the event is queued for it).
C1_StopCompletes ==
    \A c \in CallIds :
        (/\ calls[c].op = "stop" /\ calls[c].from \in {Recording, Paused}
         /\ calls[c].waiting \subseteq stopQueued)
        ~> (ret.op = "stop" /\ ret.from \in {Recording, Paused}
            /\ SessionCleared)
C1_Witness ==
    /\ ret.op = "stop" /\ ~ret.ok /\ ret.from = Paused
    /\ ret.strs # <<>>
    /\ SessionCleared

\* C2: a stream acquired by a successful startRecording() has its tracks
\* stopped exactly once over the session: never twice, and once when the
\* stopRecording() that ends the session returns, whether saveRecording
\* succeeded or threw (callers await their calls, start a session only
\* while Idle and make no call after cleanup()).
C2_ReleasedOnce ==
    /\ \A o \in Obj : released[o] <= 1
    /\ (ret.op = "stop" /\ ret.from # Idle)
          => \A o \in Obj : targets[o].made => released[o] = 1
C2_Witness ==
    /\ ret.op = "stop" /\ ~ret.ok /\ ret.from = Recording
    /\ Len(ret.strs) = MaxTracks
    /\ \A o \in Range(ret.strs) : released[o] = 1

\* C3: a startRecording() called while Idle that fails because the format
\* is unsupported or because getAudioStreams rejects returns with status
\* Idle and without onStatusChange having been invoked during the call.
C3_FailedStartStaysIdle ==
    (ret.op = "start" /\ ~ret.ok /\ ret.why \in {"format", "acquire"}
     /\ ret.from = Idle)
        => (status = Idle /\ ~ret.cbs /\ cb = NoCb)
C3_Witness ==
    /\ ret.op = "start" /\ ~ret.ok /\ ret.why = "acquire" /\ ret.from = Idle
    /\ opened # {}
    /\ status = Idle

\* the chunks of the temp file of target t, when it is in storage
TempData(t) == files[targets[t].tempFilePath].data
HasTemp(t) ==
    /\ targets[t].made
    /\ targets[t].tempFilePath # NoPath
    /\ exists(files, targets[t].tempFilePath)

\* C4: on desktop with every storage call succeeding, for every
\* interleaving of chunk arrivals: the temp file of a track always holds a
\* prefix of the chunks that arrived for the track, in arrival order (no
\* write is lost to an overlapping read-modify-write and none is
\* reordered); once the queue of the track has drained it holds all of
\* them; and it holds no chunk of another track.
C4_SerialAppend ==
    (~storageFails /\ ~platform.mobile) =>
        \A t \in Obj : HasTemp(t) =>
            /\ Len(TempData(t)) <= Len(delivered[t])
            /\ TempData(t) = SubSeq(delivered[t], 1, Len(TempData(t)))
            /\ targets[t].queue = <<>> => TempData(t) = delivered[t]
            /\ \A k \in 1..Len(TempData(t)) :
                  TempData(t)[k][1] = t[1] /\ TempData(t)[k][2] = t[2]
C4_Witness ==
    /\ ~storageFails /\ ~platform.mobile
    /\ \A i \in 1..MaxTracks :
          /\ HasTemp(<<1, i>>)
          /\ targets[<<1, i>>].queue = <<>>
          /\ TempData(<<1, i>>) # <<>>
    /\ Len(TempData(<<1, 1>>)) = MaxChunks - 1

\* the case of C5: one desktop track, the requested format is the format
\* captured, the session's stop returned without an error
C5_Case ==
    /\ ret.op = "stop" /\ ret.ok /\ ret.from # Idle
    /\ Len(ret.strs) = 1
    /\ settings.tracks = 1
    /\ ~platform.mobile
    /\ settings.recordingFormat = activeRecorderFormat
C5_Result ==
    LET t == ret.strs[1] IN
    /\ Len(ret.links) = 1
    /\ exists(files, ret.links[1])
    /\ files[ret.links[1]].data = delivered[t]
    /\ ~exists(files, targets[t].tempFilePath)

\* C5 as stated: in that case the final file is the arrival-order
\* concatenation of all chunks delivered, and the temp file is gone.
C5_FinalIsAllChunks == C5_Case => C5_Result

\* C5, amended: the same, when no call of the storage adapter failed.
C5_FinalIsAllChunksWritten == (C5_Case /\ ~storageFails) => C5_Result
C5_Witness ==
    /\ C5_Case /\ ~storageFails
    /\ Len(delivered[ret.strs[1]]) = MaxChunks
    /\ C5_Result

DefinedTransitions ==
    {<<Idle, Recording>>, <<Recording, Paused>>, <<Paused, Recording>>,
     <<Recording, Idle>>}

\* C6 as stated: every change of status is Idle to Recording, Recording to
\* Paused, Paused to Recording or Recording to Idle.
C6_OnlyDefinedTransitions ==
    [][status' # status => <<status, status'>> \in DefinedTransitions]_vars

\* C6, amended: every change of status is one of those four or Paused to
\* Idle (stopRecording or toggleRecording while Paused).
C6_TransitionsWithStopFromPaused ==
    [][status' # status =>
          <<status, status'>> \in DefinedTransitions \cup {<<Paused, Idle>>}]_vars
C6_Witness ==
    ret.op = "stop" /\ ret.from = Paused /\ ret.was = Paused /\ status = Idle

\* C7 as stated: onStatusChange is invoked exactly when the status changes,
\* with the new status, and not when the status stays what it was.
C7_CallbackPerTransition ==
    [][IF status' # status THEN cb' = status' ELSE cb' = NoCb]_vars

\* C8: togglePauseResume() while Idle leaves the status Idle, pauses and
\* resumes no recorder, invokes no onStatusChange, changes nothing of the
\* session, and shows the notice.
C8_IdlePauseIsNoOp ==
    [][(ret'.op = "togglePauseResume" /\ status = Idle) =>
          /\ status' = Idle
          /\ cb' = NoCb
          /\ recState' = recState
          /\ notice' = "No active recording to pause or resume"
          /\ UNCHANGED <<streams, recorders, chunkTargets, trackOrder,
                         recordingTimestamp, totalChunks, released,
                         targets, files, calls>>]_vars
C8_Witness ==
    /\ ret.op = "togglePauseResume" /\ ret.from = Idle
    /\ status = Idle
    /\ notice = "No active recording to pause or resume"
    /\ files # <<>>

\* C9 as stated: after a successful stop the number of final artifacts is
\* 1 in single mode with several tracks, and in multiple mode the number
\* of tracks that received a non-empty chunk.
C9_ArtifactCount ==
    (ret.op = "stop" /\ ret.ok /\ ret.from # Idle
     /\ Len(ret.strs) = settings.tracks)
        => IF settings.outputMode = "single"
           THEN settings.tracks > 1 => Len(ret.links) = 1
           ELSE Len(ret.links) =
                   Cardinality({o \in Range(ret.strs) : delivered[o] # <<>>})

C10_Transient == {"AbortError", "NotReadableError"}
C10_TransientAt(k) ==
    Len(acq.outcomes) >= k /\ acq.outcomes[k] \in C10_Transient

\* C10: getAudioStream calls getUserMedia at most 3 times; a transient
\* failure of the first or second attempt is not surfaced; after two
\* transient failures and a success it has returned the stream with 3
\* attempts made; after three transient failures it has thrown
\* AudioStreamError with the device id, and there is no fourth attempt.
C10_RetryBound ==
    /\ acq.attempts <= 3
    /\ acq.attempts = Len(acq.outcomes)
    /\ acq.delays <= 2
    /\ (acq.pc = "thrown" /\ acq.attempts < 3)
          => acq.outcomes[acq.attempts] \notin C10_Transient
    /\ (C10_TransientAt(1) /\ C10_TransientAt(2) /\ Len(acq.outcomes) = 3
        /\ acq.outcomes[3] = "stream")
          => (acq.pc = "returned" /\ acq.result = "stream"
              /\ acq.attempts = 3 /\ acq.errDevice = "")
    /\ (C10_TransientAt(1) /\ C10_TransientAt(2) /\ C10_TransientAt(3))
          => (acq.pc = "thrown" /\ acq.result = "AudioStreamError"
              /\ acq.errDevice = acq.deviceId /\ acq.attempts = 3)
C10_Witness ==
    /\ C10_TransientAt(1) /\ C10_TransientAt(2) /\ C10_TransientAt(3)
    /\ acq.outcomes[1] # acq.outcomes[2]
    /\ acq.pc = "thrown" /\ acq.deviceId = "mic-1" /\ acq.errDevice = "mic-1"

C11_Terminal == GumOutcomes \ ({"stream"} \cup C10_Transient)

\* C11: when the first getUserMedia call for a configured device fails with
\* an error that is not transient (NotAllowedError, NotFoundError,
\* OverconstrainedError, a value that is no DOMException), getAudioStream
\* has thrown AudioStreamError carrying the device id after that one call:
\* no delay, no second call, and no call that asks for another device.
C11_TerminalFailsAtOnce ==
    (acq.deviceId # "" /\ Len(acq.outcomes) >= 1
     /\ acq.outcomes[1] \in C11_Terminal)
        => /\ acq.pc = "thrown"
           /\ acq.result = "AudioStreamError"
           /\ acq.errDevice = acq.deviceId
           /\ acq.lastError = acq.outcomes[1]
           /\ acq.attempts = 1
           /\ acq.delays = 0
           /\ acq.asked = <<acq.deviceId>>
C11_Witness ==
    /\ acq.deviceId = "mic-2"
    /\ acq.outcomes = <<"OverconstrainedError">>
    /\ acq.pc = "thrown" /\ acq.errDevice = "mic-2"

\* C12: on every host, resolveRecorderFormat with output format wav gives
\* webm when the host supports webm, else ogg when it supports ogg, and
\* throws when it supports neither; with any other output format it gives
\* the requested format.
C12_CaptureFormat ==
    probe.fn = "resolveRecorderFormat" =>
        LET sup == platform.supported IN
        IF probe.arg = FORMAT_WAV
        THEN /\ FORMAT_WEBM \in sup =>
                  probe.out = [ok |-> TRUE, recorderFormat |-> FORMAT_WEBM]
             /\ (FORMAT_WEBM \notin sup /\ FORMAT_OGG \in sup) =>
                  probe.out = [ok |-> TRUE, recorderFormat |-> FORMAT_OGG]
             /\ (FORMAT_WEBM \notin sup /\ FORMAT_OGG \notin sup) =>
                  ~probe.out.ok
        ELSE probe.out = [ok |-> TRUE, recorderFormat |-> probe.arg]
C12_Witness ==
    /\ probe.fn = "resolveRecorderFormat" /\ probe.arg = FORMAT_WAV
    /\ platform.supported = {FORMAT_OGG, FORMAT_MP4, FORMAT_WAV}
    /\ probe.out.recorderFormat = FORMAT_OGG

\* C13: on every host and for each of the six formats,
\* validateRecordingCapability(f).valid is true exactly when f is in
\* detectSupportedFormats(); wav is listed and valid exactly when webm or
\* ogg is supported; an invalid result has a non-empty reason.
C13_ValidIffDetected ==
    /\ probe.fn = "validateRecordingCapability" =>
          /\ probe.out.valid <=> probe.arg \in Range(detectSupportedFormats)
          /\ ~probe.out.valid => probe.out.reason # ""
          /\ probe.arg = FORMAT_WAV =>
                (probe.out.valid <=>
                    platform.supported \cap {FORMAT_WEBM, FORMAT_OGG} # {})
    /\ probe.fn = "detectSupportedFormats" =>
          (FORMAT_WAV \in Range(probe.out) <=>
              platform.supported \cap {FORMAT_WEBM, FORMAT_OGG} # {})
C13_Witness ==
    /\ probe.fn = "validateRecordingCapability" /\ probe.arg = FORMAT_WAV
    /\ platform.supported = {FORMAT_MP3, FORMAT_WAV}
    /\ ~probe.out.valid

\* C14: for every buffer length L, channel count C and requested length R,
\* R > L included, the size of the result of bufferToWave is
\* 44 + min(R, L) * C * 2 bytes.
C14_SizeIsMinLength ==
    probe.fn = "bufferToWave" =>
        probe.out.size =
            44 + MathMin(probe.length, probe.audioBuffer.length)
                 * probe.audioBuffer.numberOfChannels * 2

C15_SampleAt(k) ==
    getChannelData(probe.audioBuffer,
                   k % probe.audioBuffer.numberOfChannels,
                   k \div probe.audioBuffer.numberOfChannels)
C15_Written ==
    {k \in DOMAIN probe.out.int16 :
        k \div probe.audioBuffer.numberOfChannels
            < MathMin(probe.length, probe.audioBuffer.length)}

\* C15: every sample above 1.0 is written as the int16 that 1.0 is written
\* as (32767), every sample below -1.0 as the int16 of -1.0 (-32768), and
\* every int16 written lies in -32768..32767.
C15_Clamped ==
    probe.fn = "bufferToWave" =>
        \A k \in C15_Written :
            /\ probe.out.int16[k] \in -32768..32767
            /\ (C15_SampleAt(k) # NaN /\ C15_SampleAt(k) >= SampleSteps)
                  => probe.out.int16[k] = 32767
            /\ (C15_SampleAt(k) # NaN /\ C15_SampleAt(k) <= -SampleSteps)
                  => probe.out.int16[k] = -32768
C15_Witness ==
    /\ probe.fn = "bufferToWave"
    /\ probe.audioBuffer.a = MaxAmplitude * SampleSteps
    /\ probe.audioBuffer.b = -(MaxAmplitude * SampleSteps)
    /\ probe.audioBuffer.numberOfChannels = MaxChannels
    /\ Cardinality(C15_Written) = MaxChannels * MaxLength
    /\ \E k \in C15_Written : probe.out.int16[k] = 32767
    /\ \E k \in C15_Written : probe.out.int16[k] = -32768

\* C16: resolveUniquePath returns a path that is not in storage when it
\* returns; over repeated calls for one file name, each returned path
\* created before the next call, the returned paths are pairwise distinct;
\* and on a finite storage every call returns.
C16_UniquePath ==
    /\ [](probe.pc = "returned" =>
            /\ probe.filePath \notin DOMAIN files
            /\ probe.filePath \notin Range(probe.returned))
    /\ [](\A i, j \in 1..Len(probe.returned) :
              i # j => probe.returned[i] # probe.returned[j])
    /\ (probe.pc = "loop" ~> probe.pc = "returned")
C16_Witness ==
    /\ probe.pc = "returned"
    /\ Len(probe.returned) = MaxResolves - 1
    /\ Suffixed(<<>>) \in probe.before
    /\ probe.counter > 1

\* C17: called for name.ext when name.ext, name_1.ext, ..., name_(k-1).ext
\* exist and name_k.ext does not, resolveUniquePath returns name_k.ext,
\* the name with the single suffix k.
C17_SingleSuffix ==
    probe.pc = "returned" =>
        /\ Suffixed(<<>>) \notin probe.before =>
              probe.filePath = Suffixed(<<>>)
        /\ \A k \in 1..3 :
              (/\ Suffixed(<<>>) \in probe.before
               /\ \A j \in 1..(k - 1) : Suffixed(<<j>>) \in probe.before
               /\ Suffixed(<<k>>) \notin probe.before)
                 => probe.filePath = Suffixed(<<k>>)

\* the case of C18: a stopRecording() of a one-track desktop session with
\* output format wav returned from the removal of the temp file or from
\* the rollback, the temp file still in storage
C18_TempPath == targets[ret.strs[1]].tempFilePath
C18_Case ==
    /\ ret.op = "stop" /\ ret.from # Idle
    /\ Len(ret.strs) = 1
    /\ ~platform.mobile
    /\ settings.recordingFormat = FORMAT_WAV
    /\ ret.stage \in {"t_remove", "kept"}
    /\ (ret.kept # <<>> \/ C18_TempPath \in DOMAIN files)
C18_Failed ==
    /\ ~ret.ok
    /\ ret.links = <<>>
    /\ ret.kept = <<C18_TempPath>>
    /\ notice = "Error stopping recording"

\* C18 as stated: when the removal of the temp file fails after the wav
\* file was written, the wav file is deleted again, stopRecording fails
\* with the error naming the temp path, and no final path is returned.
C18_RolledBack ==
    C18_Case => (C18_Failed /\ ret.fpath \notin DOMAIN files)

\* C18 amended: ... the removal of the wav file is attempted and the wav
\* file is gone unless that removal failed too; stopRecording fails with
\* the error naming the temp path, and no final path is returned.
C18_RolledBackIfRemovable ==
    C18_Case => (C18_Failed /\ (ret.rolled => ret.fpath \notin DOMAIN files))
C18_Witness ==
    /\ C18_Case /\ C18_Failed
    /\ ret.rolled
    /\ ret.fpath # NoPath /\ ret.fpath \notin DOMAIN files
    /\ C18_TempPath \in DOMAIN files

\* the temp file and the segments of every track of the returned session
C19_Intermediates ==
    UNION {(IF targets[o].tempFilePath # NoPath
            THEN {targets[o].tempFilePath} ELSE {})
           \cup Range(targets[o].segmentPaths) : o \in Range(ret.strs)}
\* the case of C19: a stopRecording() of a session of several tracks with
\* output mode single returned after the merged file was written
C19_Case ==
    /\ ret.op = "stop" /\ ret.from # Idle
    /\ Len(ret.strs) > 1
    /\ settings.outputMode = "single"
    /\ ret.stage \in {"m_cleanup", "kept"}
C19_Common ==
    /\ \A q \in C19_Intermediates \cap DOMAIN files : q \in Range(ret.kept)
    /\ Range(ret.kept) \subseteq C19_Intermediates
    /\ ret.kept = <<>> =>
          (ret.ok /\ ret.links = <<ret.fpath>>
           /\ ret.fpath \in DOMAIN files)
    /\ ret.kept # <<>> =>
          (~ret.ok /\ ret.links = <<>>
           /\ notice = "Error stopping recording")

\* C19 as stated: after the merged file is written the removal of every
\* temp file and segment is attempted; if one fails, the merged file is
\* deleted, stopRecording fails with an error listing every path that was
\* not removed, and the merged path is not returned.
C19_MergedRolledBack ==
    C19_Case =>
        (C19_Common /\ (ret.kept # <<>> => ret.fpath \notin DOMAIN files))

\* C19 amended: ... the removal of the merged file is attempted and the
\* merged file is gone unless that removal failed too; in every case the
\* error lists every path that was not removed and the merged path is not
\* returned, so a merged file never stays with intermediates beside it
\* without an error.
C19_MergedRolledBackIfRemovable ==
    C19_Case =>
        (C19_Common
         /\ ((ret.kept # <<>> /\ ret.rolled) => ret.fpath \notin DOMAIN files))
C19_Witness ==
    /\ C19_Case
    /\ Len(ret.kept) = 1
    /\ Cardinality(C19_Intermediates) = MaxTracks
    /\ ret.rolled /\ ret.fpath # NoPath /\ ret.fpath \notin DOMAIN files

\* C20: with output mode multiple, when finalizeTrackFiles fails for track
\* i, every other track that has a temp file is still finalized (its temp
\* file is renamed or converted away) and its final path is returned.
C20_TracksIndependent ==
    (/\ ret.op = "stop" /\ ret.from # Idle /\ ~ret.ok
     /\ settings.outputMode = "multiple"
     /\ ~platform.mobile
     /\ Len(ret.strs) > 1
     /\ ret.stage \in {"t_resolve", "t_rename", "t_read", "t_decode",
                       "t_create", "kept"})
        => \A j \in (1..Len(ret.strs)) \ {ret.idx} :
              LET tg == targets[ret.strs[j]] IN
              tg.tempFilePath # NoPath =>
                  /\ tg.tempFilePath \notin DOMAIN files
                  /\ \E k \in 1..Len(ret.links) :
                        ret.links[k].src = tg.sourceName

\* C21 as stated: a storage failure while one chunk is persisted, a failed
\* write on desktop or a failed flush of the mobile buffer, does not abort
\* capture: the pending-write chain of the track is never rejected, so the
\* later chunks of the track are still handled, and no stopRecording() of a
\* session returns from the wait for the pending writes without having
\* entered saveRecording.
C21_ChunkFailureTolerated ==
    /\ \A t \in Obj : targets[t].made => ~targets[t].rejected
    /\ ~(ret.op = "stop" /\ ret.from # Idle /\ ret.stage = "awaitDrain")

\* C22 as stated: when cleanup() has returned, whatever the status was when
\* it was called (Idle, Recording or Paused), streams, recorders and track
\* targets are empty and the status is Idle.
C22_CleanupResets ==
    ret.op = "cleanup" =>
        /\ streams = <<>>
        /\ recorders = <<>>
        /\ chunkTargets = <<>>
        /\ status = Idle

C23_ErrorLogs == SelectSeq(acq.logged, LAMBDA e : e.level = "error")

\* C23: a startRecording() whose acquisition of a configured device (a
\* non-empty device id) failed surfaces one error and no more: before the
\* catch block runs no Notice is shown and no error is logged, whatever
\* was retried; after it there is one Notice, whose text contains the
\* device id, and one error log entry, which carries the AudioStreamError
\* of that device.
C23_DeviceErrorSurfacedOnce ==
    /\ ~acq.caught => (acq.shown = <<>> /\ C23_ErrorLogs = <<>>)
    /\ (acq.caught /\ acq.deviceId # "") =>
          /\ Len(acq.shown) = 1
          /\ acq.deviceId \in Range(acq.shown[1])
          /\ Len(C23_ErrorLogs) = 1
          /\ C23_ErrorLogs[1].error.name = "AudioStreamError"
          /\ C23_ErrorLogs[1].error.deviceId = acq.deviceId
C23_Witness ==
    /\ acq.caught /\ acq.deviceId = "mic-1"
    /\ acq.outcomes = <<"AbortError", "NotReadableError", "NotFoundError">>
    /\ Len(acq.logged) = 3
    /\ "mic-1" \in Range(acq.shown[1])

\* C24: a startRecording() that fails on the format (resolveRecorderFormat
\* or validateRecordingCapability) returns in the step it was called in,
\* before its first await: no call is left in flight that would enumerate
\* the devices or open a stream, no stream is opened, no recorder made, no
\* file created or changed, and the status stays what it was.
C24_FormatFailsBeforeHardware ==
    [][(ret'.op = "start" /\ ~ret'.ok /\ ret'.why = "format") =>
          /\ InFlight = {}
          /\ calls' = calls
          /\ UNCHANGED <<opened, nextSession, recState, streams, recorders,
                         chunkTargets, targets, files, status>>]_vars
C24_Witness ==
    /\ ret.op = "start" /\ ~ret.ok /\ ret.why = "format"
    /\ settings.recordingFormat = FORMAT_MP3
    /\ platform.supported = {FORMAT_WEBM, FORMAT_OGG}
    /\ opened = {} /\ files = <<>> /\ InFlight = {}
    /\ status = Idle

C25_InSaveRecording(c) ==
    calls[c].op = "stop" /\ calls[c].pc \notin {"awaitStop", "awaitDrain"}

\* C25: while a stopRecording() is in saveRecording, every recorder it
\* stopped has delivered its 'stop' event and is inactive, and no track of
\* the session has a write queued or running: every chunk that arrived was
\* handled before saveRecording began, and none arrives afterwards.
C25_FinalizeAfterDrain ==
    \A c \in CallIds : C25_InSaveRecording(c) =>
        /\ calls[c].waiting = {}
        /\ \A r \in Range(calls[c].recs) :
              recState[r] = "inactive" /\ r \notin stopQueued
        /\ \A t \in calls[c].dts \cup Range(chunkTargets) :
              targets[t].queue = <<>>
C25_Witness ==
    /\ \E c \in CallIds :
          /\ C25_InSaveRecording(c)
          /\ calls[c].pc = "t_rename"
          /\ calls[c].idx = MaxTracks
    /\ \A i \in 1..MaxTracks : Len(delivered[<<1, i>>]) >= 1
    /\ Len(delivered[<<1, 1>>]) = MaxChunks - 1
    /\ storageFails

C26_Call(c) == calls[c].op = "stop" /\ calls[c].from = Paused

\* C26: toggleRecording() called while Paused is a call of stopRecording,
\* not a start: the step begins a stop and leaves the status Paused.  For
\* every stop begun while Paused, the status stays Paused while the stop is
\* in flight, until the step in which it returns and sets the status to
\* Idle; and when it has returned it went past the stop confirmations of
\* its recorders into the finalizing of the session (unless a pending
\* write had been rejected), every stream of the session has been released
\* once, and the session is cleared.
C26_ToggleWhilePausedStops ==
    /\ [][\A c \in CallIds : (status = Paused /\ toggleRecording(c)) =>
             (calls'[c].op = "stop" /\ calls'[c].from = Paused
              /\ status' = Paused)]_vars
    /\ [][\A c \in CallIds : C26_Call(c) =>
             \/ status' = Paused /\ calls'[c].op = "stop"
             \/ status' = Idle /\ ret'.op = "stop" /\ calls'[c].op = "none"]_vars
    /\ []((ret.op = "stop" /\ ret.from = Paused) =>
             /\ ret.was = Paused
             /\ SessionCleared
             /\ ret.stage # "awaitStop"
             /\ (ret.stage = "awaitDrain" =>
                    \E t \in Range(ret.strs) : targets[t].rejected)
             /\ \A o \in Range(ret.strs) : released[o] = 1)
C26_Witness ==
    /\ ret.op = "stop" /\ ret.from = Paused /\ ret.was = Paused
    /\ ret.ok /\ Len(ret.links) = MaxTracks
    /\ status = Idle
    /\ \A o \in Range(ret.strs) : released[o] = 1

\* the chunks of track t in storage or in its buffer, in the order they
\* are read back, and the chunks whose write job has not run yet
C27_Persisted(t) ==
    IF targets[t].tempFilePath # NoPath
    THEN TempData(t)
    ELSE Flatten([k \in 1..Len(targets[t].segmentPaths) |->
                     files[targets[t].segmentPaths[k]].data])
         \o Ids(targets[t].bufferedChunks)
C27_Pending(t) ==
    Ids(IF targets[t].jpc = "flush" THEN Tail(targets[t].queue)
        ELSE targets[t].queue)
C27_Capturing == \A c \in CallIds : ~C25_InSaveRecording(c)

C28_Settled(t) ==
    /\ platform.mobile /\ ~storageFails
    /\ targets[t].made /\ targets[t].jpc = "new"

\* C28 as stated: on mobile with the storage calls succeeding, after each
\* chunk has been handled bufferedBytes is below 50 MiB, and bufferedBytes
\* is the size of the chunks in the buffer.
C28_BelowThreshold ==
    \A t \in Obj : C28_Settled(t) =>
        targets[t].bufferedBytes < MOBILE_BUFFER_LIMIT_BYTES

C28_FlushStep(t) ==
    /\ targets[t].jpc = "flush" /\ targets'[t].jpc = "new"
    /\ ~targets'[t].rejected
C28_BufferStep(t) ==
    /\ isMobileRecording
    /\ targets[t].jpc = "new" /\ targets[t].queue # <<>>
    /\ \/ targets'[t].jpc = "flush"
       \/ targets'[t].queue = Tail(targets[t].queue)

\* C28 amended: on mobile with the storage calls succeeding, a chunk that
\* brings bufferedBytes to 50 MiB or more starts one flush; the flush, when
\* it succeeds, writes the buffered chunks in arrival order to one new
\* file, appends its path at the end of segmentPaths and empties the
\* buffer, so bufferedBytes is below 50 MiB once the chunk is handled; a
\* chunk that leaves bufferedBytes below 50 MiB changes no file.  A flush
\* whose conversion to wav fails leaves the buffer at or above the limit.
C28_FlushAtThreshold ==
    /\ [](\A t \in Obj : (C28_Settled(t) /\ ~targets[t].rejected) =>
             targets[t].bufferedBytes < MOBILE_BUFFER_LIMIT_BYTES)
    /\ [](\A t \in Obj : (targets[t].made /\ targets[t].jpc = "flush") =>
             targets[t].bufferedBytes >= MOBILE_BUFFER_LIMIT_BYTES)
    /\ [][\A t \in Obj : (~storageFails /\ C28_FlushStep(t)) =>
             LET new == (DOMAIN files') \ (DOMAIN files) IN
             /\ Cardinality(new) = 1
             /\ \A q \in DOMAIN files : files'[q] = files[q]
             /\ \A q \in new :
                   /\ files'[q].data = Ids(targets[t].bufferedChunks)
                   /\ targets'[t].segmentPaths =
                         Append(targets[t].segmentPaths, q)
             /\ targets'[t].bufferedChunks = <<>>
             /\ targets'[t].bufferedBytes = 0
             /\ targets'[t].queue = Tail(targets[t].queue)]_vars
    /\ [][\A t \in Obj : (~storageFails /\ C28_BufferStep(t)) =>
             /\ files' = files
             /\ targets'[t].segmentPaths = targets[t].segmentPaths
             /\ targets'[t].bufferedChunks =
                   Append(targets[t].bufferedChunks, Head(targets[t].queue))
             /\ targets'[t].bufferedBytes =
                   targets[t].bufferedBytes + Head(targets[t].queue).size
             /\ (targets'[t].jpc = "flush") <=>
                   (targets'[t].bufferedBytes >= MOBILE_BUFFER_LIMIT_BYTES)]_vars
C28_Witness ==
    /\ platform.mobile /\ ~storageFails
    /\ \E t \in Obj :
          /\ targets[t].made /\ targets[t].jpc = "new"
          /\ Len(targets[t].segmentPaths) = 1
          /\ targets[t].segmentPaths[1] \in DOMAIN files
          /\ Len(files[targets[t].segmentPaths[1]].data) = 2
          /\ targets[t].bufferedChunks # <<>>
          /\ targets[t].bufferedBytes = 3


(***************************************************************************)
(* C29: in every reachable state, bufferedBytes of every target equals the *)
(* sum of the sizes of the chunks in its bufferedChunks: while chunks are  *)
(* buffered, while a flush is in progress, after a flush that succeeded    *)
(* and after a flush that failed.                                          *)
(***************************************************************************)
RECURSIVE C29_SizeOf(_)
C29_SizeOf(chunks) ==
    IF chunks = <<>> THEN 0
    ELSE Head(chunks).size + C29_SizeOf(Tail(chunks))

C29_BufferedBytesIsSum ==
    \A t \in DOMAIN targets :
        targets[t].bufferedBytes = C29_SizeOf(targets[t].bufferedChunks)

\* a track whose flush failed: its chunks stay buffered, at the limit
C29_Witness ==
    \E t \in Range(chunkTargets) :
        /\ targets[t].rejected
        /\ Len(targets[t].bufferedChunks) >= 2
        /\ targets[t].bufferedBytes >= MOBILE_BUFFER_LIMIT_BYTES


(***************************************************************************)
(* C30: in AppendFile (desktop) mode startRecording creates one empty temp *)
(* file per track before any recorder begins capturing: while the files    *)
(* are being created every recorder of the session is inactive and has     *)
(* emitted nothing, and at the step that starts a recorder every track has *)
(* its own temp file in storage, empty.  When a creation fails, the call   *)
(* returns with no recorder started, no chunk emitted or delivered, and    *)
(* the status still Idle.                                                  *)
(***************************************************************************)
C30_Preparing ==
    \E c \in DOMAIN calls : calls[c].op = "start" /\ calls[c].pc = "prepare"
C30_NoneCapturing ==
    \A k \in 1..Len(recorders) :
        recState[recorders[k]] = "inactive" /\ emitted[recorders[k]] = 0
C30_RecorderStarts ==
    \E o \in Obj : recState[o] = "inactive" /\ recState'[o] = "recording"
C30_CreationFailed ==
    ret'.op = "start" /\ ~ret'.ok /\ ret'.why = "prepare" /\ ret'.from = Idle

C30_TempBeforeCapture ==
    /\ [](C30_Preparing => C30_NoneCapturing)
    /\ [][(C30_RecorderStarts /\ ~isMobileRecording') =>
            /\ Len(chunkTargets') = Len(recorders')
            /\ \A i \in 1..Len(chunkTargets') :
                  LET tg == targets'[chunkTargets'[i]] IN
                  /\ tg.made /\ tg.tempFilePath # NoPath
                  /\ tg.tempFilePath \in DOMAIN files'
                  /\ files'[tg.tempFilePath].data = <<>>
                  /\ \A j \in 1..Len(chunkTargets') :
                        j # i => targets'[chunkTargets'[j]].tempFilePath
                                    # tg.tempFilePath]_vars
    /\ [][C30_CreationFailed =>
            /\ status = Idle /\ status' = Idle
            /\ recState' = recState
            /\ emitted' = emitted /\ delivered' = delivered
            /\ \A k \in 1..Len(recorders') :
                  /\ recState'[recorders'[k]] = "inactive"
                  /\ emitted'[recorders'[k]] = 0]_vars

\* the creation of the second track's temp file has failed after the
\* first track's temp file was created
C30_Witness ==
    /\ ret.op = "start" /\ ~ret.ok /\ ret.why = "prepare" /\ ret.from = Idle
    /\ ~isMobileRecording
    /\ Len(recorders) = MaxTracks
    /\ \E p \in DOMAIN files : p = TempName(recorders[1][1], 1, activeRecorderFormat)
    /\ status = Idle


(***************************************************************************)
(* C31: cleanup() stops the tracks of every stream in the manager's stream *)
(* list and performs no storage operation: every file in storage before    *)
(* the call, temp files and segment files included, is there after it with *)
(* the same content, and no file is added.                                 *)
(***************************************************************************)
C31_CleanupKeepsStorage ==
    [][ret'.op = "cleanup" =>
          /\ files' = files
          /\ \A o \in Range(streams) : released'[o] = released[o] + 1
          /\ \A o \in Obj \ Range(streams) : released'[o] = released[o]]_vars

\* cleanup() has returned from a session in progress: its streams are
\* released and a temp file or a segment file with captured data is kept
C31_Witness ==
    /\ ret.op = "cleanup" /\ ret.from # Idle
    /\ \E o \in Obj : released[o] = 1
    /\ \E t \in Obj :
          /\ targets[t].made
          /\ \/ HasTemp(t) /\ TempData(t) # <<>>
             \/ \E k \in 1..Len(targets[t].segmentPaths) :
                   exists(files, targets[t].segmentPaths[k])


(***************************************************************************)
(* C32: multi-track acquisition is all-or-nothing.  When getAudioStreams   *)
(* has opened fewer streams than there are configured tracks, because the  *)
(* acquisition of some device failed, startRecording() returns failed in   *)
(* that step: the manager's streams, recorders, track order and track      *)
(* targets are what they were, none of the streams just opened is in the   *)
(* stream list, no recorder exists for the session, and the status is Idle *)
(* before and after.                                                       *)
(***************************************************************************)
C32_AcquisitionReturns(c) ==
    calls[c].op = "start" /\ calls[c].pc = "acquire"
    /\ calls'[c].pc # "acquire"
C32_SomeDeviceFailed ==
    Cardinality(opened' \ opened) < settings.tracks

C32_AllOrNothing ==
    [][\A c \in CallIds :
          (C32_AcquisitionReturns(c) /\ C32_SomeDeviceFailed) =>
             /\ ret'.op = "start" /\ ~ret'.ok /\ ret'.why = "acquire"
             /\ calls'[c] = NoCall
             /\ streams' = streams /\ recorders' = recorders
             /\ trackOrder' = trackOrder
             /\ chunkTargets' = chunkTargets /\ targets' = targets
             /\ recState' = recState
             /\ \A o \in opened' \ opened :
                   o \notin Range(streams') /\ recState'[o] = "none"
             /\ status = Idle /\ status' = Idle]_vars

\* a two-track start has failed with one of its two devices acquired
C32_Witness ==
    /\ ret.op = "start" /\ ~ret.ok /\ ret.why = "acquire"
    /\ settings.tracks = MaxTracks
    /\ Cardinality(opened) = 1
    /\ streams = <<>> /\ recorders = <<>> /\ chunkTargets = <<>>
    /\ status = Idle


(***************************************************************************)
(* C33: in every started session the track numbers of the tracks are       *)
(* pairwise distinct, form exactly the set 1..N for N tracks, and ascend   *)
(* with the configured slots (the i-th track is the one of the i-th slot   *)
(* that has a device selected), also when slots without a device are       *)
(* skipped.                                                                *)
(***************************************************************************)
C33_SlotOf(i) ==
    CHOOSE k \in Selected(probe.trackAudioSources) :
        Cardinality({j \in Selected(probe.trackAudioSources) : j < k}) = i - 1
C34_NoStartInFlight == \A c \in CallIds : calls[c].op # "start"
C34_FailedStartReleases ==
    /\ (ret.op = "start" /\ ~ret.ok) =>
          \A o \in opened : released[o] >= 1
    /\ (status = Idle /\ C34_NoStartInFlight) =>
          \A o \in opened : released[o] >= 1


(***************************************************************************)
(* C35 as stated: when toggleRecording() is called without awaiting the    *)
(* previous call, a second toggle arriving while the first start is in     *)
(* flight acquires no second set of streams (the streams that are open and *)
(* not released belong to one session), and every stream that is open and  *)
(* not released is in the manager's stream list, where the next            *)
(* stopRecording() finds it.                                               *)
(***************************************************************************)
C35_Live == {o \in opened : released[o] = 0}
C35_OneSessionHeld ==
    /\ \A o, q \in C35_Live : o[1] = q[1]
    /\ \A o \in C35_Live : o \in Range(streams)


(***************************************************************************)
(* C36 as stated: when stopRecording() is entered again while a stop is in *)
(* flight, saveRecording runs for one call only, and while a call is in    *)
(* saveRecording the track targets are still the complete list of the      *)
(* session (one per recorder the call stopped) and none of the streams it  *)
(* is to release has been released by another call.                        *)
(***************************************************************************)
C36_Finalizing(c) ==
    calls[c].op = "stop" /\ calls[c].pc \notin {"awaitStop", "awaitDrain"}
C36_OneFinalize ==
    /\ \A c, d \in CallIds :
          (C36_Finalizing(c) /\ C36_Finalizing(d)) => c = d
    /\ \A c \in CallIds : C36_Finalizing(c) =>
          /\ Len(chunkTargets) = Len(calls[c].recs)
          /\ \A o \in Range(calls[c].strs) : released[o] = 0


(***************************************************************************)
(* C37 as stated: in a desktop session the temp file paths assigned to the *)
(* tracks by startRecording are pairwise distinct, also when two tracks    *)
(* have the same source name and their paths are resolved and created in   *)
(* any interleaving, and every temp file holds the chunks of one recorder  *)
(* only.                                                                   *)
(***************************************************************************)
\* track i of the start c has its tempFilePath assigned
C37_Assigned(c, i) == calls[c].prep[i] \in {"create", "done"}
C37_AssignedPathsDistinct ==
    /\ \A c \in CallIds :
          (calls[c].op = "start" /\ calls[c].pc = "prepare"
           /\ ~isMobileRecording) =>
             \A i, j \in 1..Len(calls[c].prep) :
                 (i # j /\ C37_Assigned(c, i) /\ C37_Assigned(c, j)) =>
                     calls[c].tpaths[i] # calls[c].tpaths[j]
    /\ ~isMobileRecording =>
          \A i, j \in 1..Len(chunkTargets) :
              i # j => targets[chunkTargets[i]].tempFilePath
                          # targets[chunkTargets[j]].tempFilePath
    /\ \A p \in DOMAIN files :
          \A a, b \in Range(files[p].data) : a[2] = b[2]

\* what does hold: the tracks of a session that did start have distinct
\* temp paths, and no file holds chunks of two recorders
C37_StartedPathsDistinct ==
    /\ ~isMobileRecording =>
          \A i, j \in 1..Len(chunkTargets) :
              i # j => targets[chunkTargets[i]].tempFilePath
                          # targets[chunkTargets[j]].tempFilePath
    /\ \A p \in DOMAIN files :
          \A a, b \in Range(files[p].data) : a[2] = b[2]

(***************************************************************************)
(* C38: saveRecording never loses captured data.                           *)
(***************************************************************************)
\* the chunks held by some file of the storage fs
C38_Stored(fs) == UNION {Range(fs[p].data) : p \in DOMAIN fs}

\* C38 as stated: finalize loses no captured data: every chunk that is in
\* storage when a step of saveRecording begins is in storage after it, in
\* a final file or in a surviving temp file or segment, so that after
\* stopRecording() the persisted chunks of every track are still stored;
\* also when several tracks go into a single file, only some removals of
\* intermediates fail and the merged file is rolled back.
C38_FinalizeKeepsCaptured ==
    [][(\E c \in CallIds : C25_InSaveRecording(c))
          => C38_Stored(files) \subseteq C38_Stored(files')]_vars

\* what does hold: the rollback of a merged file is the one step of
\* saveRecording after which a stored chunk is stored no longer
C38_LostByMergedRollbackOnly ==
    [][(\E c \in CallIds :
           /\ C25_InSaveRecording(c)
           /\ ~(/\ calls[c].pc = "rollback"
                /\ settings.outputMode = "single"
                /\ Len(chunkTargets) > 1
                /\ \E p \in Range(IntermediatePaths) : p \notin DOMAIN files))
          => C38_Stored(files) \subseteq C38_Stored(files')]_vars

(***************************************************************************)
(* C39: finalizeTrackFiles on desktop removes the temp file of a track     *)
(* only once the final file exists.                                        *)
(***************************************************************************)
\* the stopRecording c is in finalizeTrackFiles for a track with a temp
\* file
C39_Finalizing(c) ==
    /\ calls[c].op = "stop"
    /\ calls[c].pc \in {"t_resolve", "t_read", "t_decode", "t_create",
                        "t_rename", "t_remove"}
    /\ ~isMobileRecording
C39_Temp(c) == targets[calls[c].tgt].tempFilePath
\* the awaits the claim names: reading and decoding the temp file, writing
\* the wav file, renaming the temp file
C39_FailingStages == {"t_read", "t_decode", "t_create", "t_rename"}

\* C39: while finalizeTrackFiles works on a desktop track, every step
\* leaves the temp file of the track as it is, or takes it away with the
\* final file in storage holding its chunks; and when stopRecording fails
\* in the decoding, in the writing of the wav file or in the rename, the
\* temp file is in storage afterwards, unchanged, and no final path is
\* returned.
C39_TempOutlivesFailure ==
    [][\A c \in CallIds : C39_Finalizing(c) =>
          /\ C39_Temp(c) \in DOMAIN files
          /\ \/ /\ C39_Temp(c) \in DOMAIN files'
                /\ files'[C39_Temp(c)] = files[C39_Temp(c)]
             \/ /\ C39_Temp(c) \notin DOMAIN files'
                /\ calls[c].fpath \in DOMAIN files'
                /\ files'[calls[c].fpath].data = files[C39_Temp(c)].data
          /\ (/\ ret'.op = "stop" /\ ~ret'.ok
              /\ calls[c].pc \in C39_FailingStages)
                => /\ C39_Temp(c) \in DOMAIN files'
                   /\ files'[C39_Temp(c)] = files[C39_Temp(c)]
                   /\ ret'.links = <<>>
                   /\ calls[c].fpath \notin DOMAIN files']_vars
\* a one-track desktop stopRecording failed in one of those awaits after
\* every chunk was written, and the temp file holds them all
C39_Witness ==
    /\ ret.op = "stop" /\ ~ret.ok /\ ret.from # Idle
    /\ ret.stage \in C39_FailingStages
    /\ ~platform.mobile
    /\ Len(ret.strs) = 1
    /\ ret.links = <<>>
    /\ C18_TempPath \in DOMAIN files
    /\ Len(delivered[ret.strs[1]]) = MaxChunks
    /\ files[C18_TempPath].data = delivered[ret.strs[1]]

====
